---------------------------- MODULE Spec2Model ----------------------------
(***************************************************************************)
(* A model of the CHIP-8 / Super-CHIP interpreter of                       *)
(* src/cats_chip8_emu-x.x.x.py: class CPU (memory, registers, the two      *)
(* display planes, the decoder and its handlers, timers, key events,       *)
(* state()/restore()), the snapshot slot Emulator.saves[0], and the frame  *)
(* loop of class Emulator (_update, the menu actions, the tone of Sound).  *)
(*                                                                         *)
(* Representation.  The CPU object is the record cpu, one field per        *)
(* attribute, named as in the source.  The 4096-byte bytearray is held as  *)
(* the function from the addresses of its NON-ZERO bytes to those bytes    *)
(* (MemRead gives 0 elsewhere); a plane is held as the set of <<col, row>> *)
(* of its lit pixels.  Both are one-to-one with the Python values.         *)
(***************************************************************************)
EXTENDS Integers, Sequences, FiniteSets, TLC

VARIABLES cpu,      \* the CPU object (Emulator.cpu)
          saves,    \* Emulator.saves[0] (a state() record) or NoSave
          alias,    \* how the lists of saves[0] and the CPU's lists are related
          last,     \* the last call made on the CPU: its name, argument, result
          loads,    \* how many times load_bytes / reset were called, and on what
          rt,       \* observer of a run "state(); k steps; restore(); k steps"
          host      \* the Emulator object: pause flag, speed, timer accumulator,
                    \* tone, and the calls it made in the current frame

vars == <<cpu, saves, alias, last, loads, rt, host>>

----------------------------------------------------------------------------
(* Program constants                                                       *)

CHIP8_WIDTH == 64
CHIP8_HEIGHT == 32
SCHIP_WIDTH == 128
SCHIP_HEIGHT == 64
MEMORY_SIZE == 4096
PROGRAM_START == 512
STACK_SIZE == 16
NUM_REGS == 16
NUM_KEYS == 16
NUM_RPL == 8
SCHIP_FONT_BASE == 80

FONTSET ==
  << 240, 144, 144, 144, 240, 32, 96, 32, 32, 112,
     240, 16, 240, 128, 240, 240, 16, 240, 16, 240,
     144, 144, 240, 16, 16, 240, 128, 240, 16, 240,
     240, 128, 240, 144, 240, 240, 16, 32, 64, 64,
     240, 144, 240, 144, 240, 240, 144, 240, 16, 240,
     240, 144, 240, 144, 144, 224, 144, 224, 144, 224,
     240, 128, 128, 128, 240, 224, 144, 144, 144, 224,
     240, 128, 240, 128, 240, 240, 128, 240, 128, 128 >>

SCHIP_FONT ==
  << 60, 126, 231, 195, 195, 195, 195, 231, 126, 60,
     24, 56, 88, 24, 24, 24, 24, 24, 24, 60,
     62, 127, 195, 6, 12, 24, 48, 96, 255, 255,
     60, 126, 195, 3, 14, 14, 3, 195, 126, 60,
     6, 14, 30, 54, 102, 198, 255, 255, 6, 6,
     255, 255, 192, 192, 252, 254, 3, 195, 126, 60,
     62, 124, 192, 192, 252, 254, 195, 195, 126, 60,
     255, 255, 3, 6, 12, 24, 48, 96, 96, 96,
     60, 126, 195, 195, 126, 126, 195, 195, 126, 60,
     60, 126, 195, 195, 127, 63, 3, 3, 62, 124 >>

----------------------------------------------------------------------------
(* Python integer operators on the values the interpreter uses             *)

RECURSIVE BitAnd(_, _)
BitAnd(a, b) ==
  IF a = 0 \/ b = 0 THEN 0
  ELSE (a % 2) * (b % 2) + 2 * BitAnd(a \div 2, b \div 2)

RECURSIVE BitOr(_, _)
BitOr(a, b) ==
  IF a = 0 THEN b
  ELSE IF b = 0 THEN a
  ELSE (IF a % 2 = 1 \/ b % 2 = 1 THEN 1 ELSE 0) + 2 * BitOr(a \div 2, b \div 2)

RECURSIVE BitXor(_, _)
BitXor(a, b) ==
  IF a = 0 THEN b
  ELSE IF b = 0 THEN a
  ELSE ((a + b) % 2) + 2 * BitXor(a \div 2, b \div 2)

RECURSIVE Pow2(_)
Pow2(k) == IF k = 0 THEN 1 ELSE 2 * Pow2(k - 1)

Shr(a, k) == a \div Pow2(k)

\* (v >> k) & 1
BitAt(v, k) == Shr(v, k) % 2

\* seq[i] of a Python list of length len: a negative i counts from the end;
\* the result is -1 where Python raises IndexError
ListIndex(i, len) ==
  IF 0 <= i /\ i < len THEN i
  ELSE IF -len <= i /\ i < 0 THEN i + len
  ELSE -1

----------------------------------------------------------------------------
(* Memory: bytearray(MEMORY_SIZE)                                          *)

ZeroMem == << >>

MemRead(m, a) == IF a \in DOMAIN m THEN m[a] ELSE 0

\* mem[a] = v for 0 <= a < MEMORY_SIZE
MemWrite(m, a, v) ==
  IF v = 0
    THEN [b \in (DOMAIN m) \ {a} |-> m[b]]
    ELSE [b \in (DOMAIN m) \cup {a} |-> IF b = a THEN v ELSE m[b]]


\* mem[base : base+len(data)] = data
MemBlit(m, base, data) ==
  LET keep == {b \in DOMAIN m : b < base \/ b >= base + Len(data)}
      put  == {b \in base .. (base + Len(data) - 1) : data[b - base + 1] # 0}
  IN  [b \in keep \cup put |-> IF b \in put THEN data[b - base + 1] ELSE m[b]]

----------------------------------------------------------------------------
(* CPU.reset, CPU.load_bytes                                               *)

ZeroRegs == [i \in 0 .. NUM_REGS - 1 |-> 0]
ZeroStack == [i \in 0 .. STACK_SIZE - 1 |-> 0]
ZeroKeys == [i \in 0 .. NUM_KEYS - 1 |-> 0]
ZeroRpl == [i \in 0 .. NUM_RPL - 1 |-> 0]

\* the old bytearray is kept and only the fonts are written again
reset_mem_Keep(c) ==
  MemBlit(MemBlit(c.mem, 0, FONTSET), SCHIP_FONT_BASE, SCHIP_FONT)

\* self.mem = bytearray(MEMORY_SIZE), then the two font tables
reset_mem(c) ==
  MemBlit(MemBlit(ZeroMem, 0, FONTSET), SCHIP_FONT_BASE, SCHIP_FONT)

reset(c) ==
  [ mem |-> reset_mem(c),
    V |-> ZeroRegs, I |-> 0, PC |-> PROGRAM_START,
    stack |-> ZeroStack, SP |-> 0, DT |-> 0, ST |-> 0,
    hires |-> FALSE, gfx |-> {}, gfx_hi |-> {},
    keys |-> ZeroKeys, wait_key |-> FALSE, wait_reg |-> 0,
    draw_flag |-> TRUE, halted |-> FALSE, loaded |-> FALSE,
    cycles |-> 0, rpl |-> ZeroRpl ]

\* a ROM that exactly fills the program space is refused
load_rejects_OffByOne(data) == Len(data) >= MEMORY_SIZE - PROGRAM_START

\* the guard of load / load_bytes
load_rejects(data) == Len(data) > MEMORY_SIZE - PROGRAM_START

\* load_bytes(data): the CPU afterwards (the return value is ~load_rejects(data))
load_bytes(c, data) ==
  IF load_rejects(data) THEN c
  ELSE LET c1 == reset(c)
       IN  [c1 EXCEPT !.mem = MemBlit(c1.mem, PROGRAM_START, data),
                      !.loaded = TRUE]


----------------------------------------------------------------------------
(* The outcome of a call that may raise: the CPU it leaves behind and      *)
(* whether a Python exception (IndexError) propagated out of it            *)

Ok(c) == [cpu |-> c, exc |-> FALSE]
Raise(c) == [cpu |-> c, exc |-> TRUE]

SetV(V, i, v) == [V EXCEPT ![i] = v]

----------------------------------------------------------------------------
(* CPU.display, CPU.size                                                   *)

display(c) == IF c.hires THEN c.gfx_hi ELSE c.gfx

size(c) ==
  IF c.hires THEN <<SCHIP_WIDTH, SCHIP_HEIGHT>> ELSE <<CHIP8_WIDTH, CHIP8_HEIGHT>>

\* the plane object display(c) after its pixels were rewritten to g
\* the pixels always go to the low-res plane
SetDisplay_Lores(c, g) == [c EXCEPT !.gfx = g]

SetDisplay(c, g) ==
  IF c.hires THEN [c EXCEPT !.gfx_hi = g] ELSE [c EXCEPT !.gfx = g]

----------------------------------------------------------------------------
(* CPU._scroll_d, CPU._scroll_r, CPU._scroll_l                             *)
(* Each loop copies from cells it has not overwritten yet (it walks away   *)
(* from its sources), so the plane it leaves is the shifted old plane.     *)

\* for y in range(h-1, n-1, -1): g[y] = g[y-n][:]
\* for y in range(n): g[y] = [0]*w
ScrollDownRows(g, h, n) ==
  { <<p[1], p[2] + n>> : p \in {q \in g : q[2] + n <= h - 1} }

_scroll_d(c, n) ==
  LET g == display(c)
      h == size(c)[2]
  IN  [SetDisplay(c, ScrollDownRows(g, h, n)) EXCEPT !.draw_flag = TRUE]

\* for x in range(w-1, 3, -1): row[x] = row[x-4]
\* for x in range(4): row[x] = 0
ScrollRightCols(g, w) ==
  { <<p[1] + 4, p[2]>> : p \in {q \in g : q[1] + 4 <= w - 1} }

_scroll_r(c) ==
  LET g == display(c)
      w == size(c)[1]
  IN  [SetDisplay(c, ScrollRightCols(g, w)) EXCEPT !.draw_flag = TRUE]


\* the columns that leave on the left come back on the right
ScrollLeftCols_Wraps(g, w) ==
  { <<(p[1] - 4) % w, p[2]>> : p \in g }

\* for x in range(w-4): row[x] = row[x+4]
\* for x in range(w-4, w): row[x] = 0
ScrollLeftCols(g, w) ==
  { <<p[1] - 4, p[2]>> : p \in {q \in g : q[1] - 4 >= 0} }

_scroll_l(c) ==
  LET g == display(c)
      w == size(c)[1]
  IN  [SetDisplay(c, ScrollLeftCols(g, w)) EXCEPT !.draw_flag = TRUE]

----------------------------------------------------------------------------
(* CPU._draw, CPU._draw16                                                  *)

\* pixels past the right or bottom edge are dropped instead of wrapped
SpritePixels_Clipped(c, vx, vy, n) ==
  LET w == size(c)[1]
      h == size(c)[2]
  IN  { <<vx + col, vy + row>> :
          <<row, col>> \in
            { rc \in (0 .. n - 1) \X (0 .. 7) :
                /\ vx + rc[2] < w /\ vy + rc[1] < h
                /\ BitAt(MemRead(c.mem, (c.I + rc[1]) % MEMORY_SIZE), 7 - rc[2]) = 1 } }

\* The pixels the two loops toggle.  No pixel is visited twice: a sprite has
\* fewer rows than the plane and fewer columns than the plane.
SpritePixels(c, vx, vy, n) ==
  LET w == size(c)[1]
      h == size(c)[2]
  IN  { <<(vx + col) % w, (vy + row) % h>> :
          <<row, col>> \in
            { rc \in (0 .. n - 1) \X (0 .. 7) :
                BitAt(MemRead(c.mem, (c.I + rc[1]) % MEMORY_SIZE), 7 - rc[2]) = 1 } }


\* the two bytes of a row taken low byte first
Sprite16Word_LittleEndian(c, row) ==
  MemRead(c.mem, (c.I + row * 2) % MEMORY_SIZE)
    + MemRead(c.mem, (c.I + row * 2 + 1) % MEMORY_SIZE) * 256

Sprite16Word(c, row) ==
  MemRead(c.mem, (c.I + row * 2) % MEMORY_SIZE) * 256
    + MemRead(c.mem, (c.I + row * 2 + 1) % MEMORY_SIZE)

Sprite16Pixels(c, vx, vy) ==
  { <<(vx + col) % SCHIP_WIDTH, (vy + row) % SCHIP_HEIGHT>> :
      <<row, col>> \in
        { rc \in (0 .. 15) \X (0 .. 15) :
            BitAt(Sprite16Word(c, rc[1]), 15 - rc[2]) = 1 } }

\* V[0xF] is not cleared before the loops
XorPixels_KeepsVF(c, g, px) ==
  [c EXCEPT !.V = IF px \cap g # {} THEN SetV(@, 15, 1) ELSE @,
            !.draw_flag = TRUE]

\* V[0xF] = 0, then every pixel of px is XORed and V[0xF] = 1 if one was lit
XorPixels(c, g, px) ==
  [c EXCEPT !.V = SetV(@, 15, IF px \cap g # {} THEN 1 ELSE 0),
            !.draw_flag = TRUE]

_draw16(c, vx0, vy0) ==
  LET g  == c.gfx_hi
      vx == vx0 % SCHIP_WIDTH
      vy == vy0 % SCHIP_HEIGHT
      px == Sprite16Pixels(c, vx, vy)
  IN  [XorPixels(c, g, px) EXCEPT !.gfx_hi = (g \ px) \cup (px \ g)]

_draw(c, x, y, n) ==
  LET g == display(c)
      w == size(c)[1]
      h == size(c)[2]
  IN  IF n = 0 /\ c.hires THEN _draw16(c, c.V[x], c.V[y])
      ELSE LET vx == c.V[x] % w
               vy == c.V[y] % h
               px == SpritePixels(c, vx, vy, n)
           IN  SetDisplay(XorPixels(c, g, px), (g \ px) \cup (px \ g))

----------------------------------------------------------------------------
(* CPU._alu                                                                *)

\* _alu whose 8XYE stores V[x] << 1 without & 0xFF
_alu_ShiftUnmasked(c, x, y, n) ==
  LET V == c.V
      W == CASE n = 0 -> SetV(V, x, V[y])
             [] n = 1 -> SetV(SetV(V, x, BitOr(V[x], V[y])), 15, 0)
             [] n = 2 -> SetV(SetV(V, x, BitAnd(V[x], V[y])), 15, 0)
             [] n = 3 -> SetV(SetV(V, x, BitXor(V[x], V[y])), 15, 0)
             [] n = 4 -> LET r == V[x] + V[y]
                         IN  SetV(SetV(V, x, r % 256), 15, IF r > 255 THEN 1 ELSE 0)
             [] n = 5 -> LET f == IF V[x] >= V[y] THEN 1 ELSE 0
                         IN  SetV(SetV(V, x, (V[x] - V[y]) % 256), 15, f)
             [] n = 6 -> LET f == V[x] % 2
                         IN  SetV(SetV(V, x, V[x] \div 2), 15, f)
             [] n = 7 -> LET f == IF V[y] >= V[x] THEN 1 ELSE 0
                         IN  SetV(SetV(V, x, (V[y] - V[x]) % 256), 15, f)
             [] n = 14 -> LET f == BitAt(V[x], 7)
                          IN  SetV(SetV(V, x, V[x] * 2), 15, f)
             [] OTHER -> V
  IN  [c EXCEPT !.V = W]

\* _alu whose 8XY4 writes the flag before the sum
_alu_FlagFirst(c, x, y, n) ==
  LET V == c.V
      W == CASE n = 0 -> SetV(V, x, V[y])
             [] n = 1 -> SetV(SetV(V, x, BitOr(V[x], V[y])), 15, 0)
             [] n = 2 -> SetV(SetV(V, x, BitAnd(V[x], V[y])), 15, 0)
             [] n = 3 -> SetV(SetV(V, x, BitXor(V[x], V[y])), 15, 0)
             [] n = 4 -> LET r == V[x] + V[y]
                         IN  SetV(SetV(V, 15, IF r > 255 THEN 1 ELSE 0), x, r % 256)
             [] n = 5 -> LET f == IF V[x] >= V[y] THEN 1 ELSE 0
                         IN  SetV(SetV(V, x, (V[x] - V[y]) % 256), 15, f)
             [] n = 6 -> LET f == V[x] % 2
                         IN  SetV(SetV(V, x, V[x] \div 2), 15, f)
             [] n = 7 -> LET f == IF V[y] >= V[x] THEN 1 ELSE 0
                         IN  SetV(SetV(V, x, (V[y] - V[x]) % 256), 15, f)
             [] n = 14 -> LET f == BitAt(V[x], 7)
                          IN  SetV(SetV(V, x, (V[x] * 2) % 256), 15, f)
             [] OTHER -> V
  IN  [c EXCEPT !.V = W]

\* _alu whose 8XY1, 8XY2, 8XY3 leave VF alone
_alu_KeepsVF(c, x, y, n) ==
  LET V == c.V
      W == CASE n = 0 -> SetV(V, x, V[y])
             [] n = 1 -> SetV(V, x, BitOr(V[x], V[y]))
             [] n = 2 -> SetV(V, x, BitAnd(V[x], V[y]))
             [] n = 3 -> SetV(V, x, BitXor(V[x], V[y]))
             [] n = 4 -> LET r == V[x] + V[y]
                         IN  SetV(SetV(V, x, r % 256), 15, IF r > 255 THEN 1 ELSE 0)
             [] n = 5 -> LET f == IF V[x] >= V[y] THEN 1 ELSE 0
                         IN  SetV(SetV(V, x, (V[x] - V[y]) % 256), 15, f)
             [] n = 6 -> LET f == V[x] % 2
                         IN  SetV(SetV(V, x, V[x] \div 2), 15, f)
             [] n = 7 -> LET f == IF V[y] >= V[x] THEN 1 ELSE 0
                         IN  SetV(SetV(V, x, (V[y] - V[x]) % 256), 15, f)
             [] n = 14 -> LET f == BitAt(V[x], 7)
                          IN  SetV(SetV(V, x, (V[x] * 2) % 256), 15, f)
             [] OTHER -> V
  IN  [c EXCEPT !.V = W]

\* _alu whose 8XY5 sets the flag for V[x] > V[y] only
_alu_StrictBorrow(c, x, y, n) ==
  LET V == c.V
      W == CASE n = 0 -> SetV(V, x, V[y])
             [] n = 1 -> SetV(SetV(V, x, BitOr(V[x], V[y])), 15, 0)
             [] n = 2 -> SetV(SetV(V, x, BitAnd(V[x], V[y])), 15, 0)
             [] n = 3 -> SetV(SetV(V, x, BitXor(V[x], V[y])), 15, 0)
             [] n = 4 -> LET r == V[x] + V[y]
                         IN  SetV(SetV(V, x, r % 256), 15, IF r > 255 THEN 1 ELSE 0)
             [] n = 5 -> LET f == IF V[x] > V[y] THEN 1 ELSE 0
                         IN  SetV(SetV(V, x, (V[x] - V[y]) % 256), 15, f)
             [] n = 6 -> LET f == V[x] % 2
                         IN  SetV(SetV(V, x, V[x] \div 2), 15, f)
             [] n = 7 -> LET f == IF V[y] >= V[x] THEN 1 ELSE 0
                         IN  SetV(SetV(V, x, (V[y] - V[x]) % 256), 15, f)
             [] n = 14 -> LET f == BitAt(V[x], 7)
                          IN  SetV(SetV(V, x, (V[x] * 2) % 256), 15, f)
             [] OTHER -> V
  IN  [c EXCEPT !.V = W]

\* _alu whose 8XYE shifts V[y] into V[x]
_alu_ShiftVy(c, x, y, n) ==
  LET V == c.V
      W == CASE n = 0 -> SetV(V, x, V[y])
             [] n = 1 -> SetV(SetV(V, x, BitOr(V[x], V[y])), 15, 0)
             [] n = 2 -> SetV(SetV(V, x, BitAnd(V[x], V[y])), 15, 0)
             [] n = 3 -> SetV(SetV(V, x, BitXor(V[x], V[y])), 15, 0)
             [] n = 4 -> LET r == V[x] + V[y]
                         IN  SetV(SetV(V, x, r % 256), 15, IF r > 255 THEN 1 ELSE 0)
             [] n = 5 -> LET f == IF V[x] >= V[y] THEN 1 ELSE 0
                         IN  SetV(SetV(V, x, (V[x] - V[y]) % 256), 15, f)
             [] n = 6 -> LET f == V[x] % 2
                         IN  SetV(SetV(V, x, V[x] \div 2), 15, f)
             [] n = 7 -> LET f == IF V[y] >= V[x] THEN 1 ELSE 0
                         IN  SetV(SetV(V, x, (V[y] - V[x]) % 256), 15, f)
             [] n = 14 -> LET f == BitAt(V[y], 7)
                          IN  SetV(SetV(V, x, (V[y] * 2) % 256), 15, f)
             [] OTHER -> V
  IN  [c EXCEPT !.V = W]

\* _alu whose unlisted n clear VF
_alu_UnknownClearsVF(c, x, y, n) ==
  LET V == c.V
      W == CASE n = 0 -> SetV(V, x, V[y])
             [] n = 1 -> SetV(SetV(V, x, BitOr(V[x], V[y])), 15, 0)
             [] n = 2 -> SetV(SetV(V, x, BitAnd(V[x], V[y])), 15, 0)
             [] n = 3 -> SetV(SetV(V, x, BitXor(V[x], V[y])), 15, 0)
             [] n = 4 -> LET r == V[x] + V[y]
                         IN  SetV(SetV(V, x, r % 256), 15, IF r > 255 THEN 1 ELSE 0)
             [] n = 5 -> LET f == IF V[x] >= V[y] THEN 1 ELSE 0
                         IN  SetV(SetV(V, x, (V[x] - V[y]) % 256), 15, f)
             [] n = 6 -> LET f == V[x] % 2
                         IN  SetV(SetV(V, x, V[x] \div 2), 15, f)
             [] n = 7 -> LET f == IF V[y] >= V[x] THEN 1 ELSE 0
                         IN  SetV(SetV(V, x, (V[y] - V[x]) % 256), 15, f)
             [] n = 14 -> LET f == BitAt(V[x], 7)
                          IN  SetV(SetV(V, x, (V[x] * 2) % 256), 15, f)
             [] OTHER -> SetV(V, 15, 0)
  IN  [c EXCEPT !.V = W]

_alu(c, x, y, n) ==
  LET V == c.V
      W == CASE n = 0 -> SetV(V, x, V[y])
             [] n = 1 -> SetV(SetV(V, x, BitOr(V[x], V[y])), 15, 0)
             [] n = 2 -> SetV(SetV(V, x, BitAnd(V[x], V[y])), 15, 0)
             [] n = 3 -> SetV(SetV(V, x, BitXor(V[x], V[y])), 15, 0)
             [] n = 4 -> LET r == V[x] + V[y]
                         IN  SetV(SetV(V, x, r % 256), 15, IF r > 255 THEN 1 ELSE 0)
             [] n = 5 -> LET f == IF V[x] >= V[y] THEN 1 ELSE 0
                         IN  SetV(SetV(V, x, (V[x] - V[y]) % 256), 15, f)
             [] n = 6 -> LET f == V[x] % 2
                         IN  SetV(SetV(V, x, V[x] \div 2), 15, f)
             [] n = 7 -> LET f == IF V[y] >= V[x] THEN 1 ELSE 0
                         IN  SetV(SetV(V, x, (V[y] - V[x]) % 256), 15, f)
             [] n = 14 -> LET f == BitAt(V[x], 7)
                          IN  SetV(SetV(V, x, (V[x] * 2) % 256), 15, f)
             [] OTHER -> V
  IN  [c EXCEPT !.V = W]

----------------------------------------------------------------------------
(* CPU._misc                                                               *)

\* FX33: three unmasked writes mem[I], mem[I+1], mem[I+2]; the first one out
\* of range raises and leaves the earlier ones done
_misc_bcd(c, x) ==
  LET v  == c.V[x]
      a0 == ListIndex(c.I, MEMORY_SIZE)
      a1 == ListIndex(c.I + 1, MEMORY_SIZE)
      a2 == ListIndex(c.I + 2, MEMORY_SIZE)
      c0 == [c EXCEPT !.mem = MemWrite(@, a0, v \div 100)]
      c1 == [c0 EXCEPT !.mem = MemWrite(@, a1, (v \div 10) % 10)]
      c2 == [c1 EXCEPT !.mem = MemWrite(@, a2, v % 10)]
  IN  IF a0 = -1 THEN Raise(c)
      ELSE IF a1 = -1 THEN Raise(c0)
      ELSE IF a2 = -1 THEN Raise(c1)
      ELSE Ok(c2)

\* for i in range(i, x+1): mem[(I+i) & 0xFFF] = V[i]
RECURSIVE StoreRegs(_, _, _, _, _)
StoreRegs(m, V, I, i, x) ==
  IF i > x THEN m
  ELSE StoreRegs(MemWrite(m, (I + i) % MEMORY_SIZE, V[i]), V, I, i + 1, x)

\* for i in range(i, x+1): V[i] = mem[(I+i) & 0xFFF]
RECURSIVE LoadRegs(_, _, _, _, _)
LoadRegs(V, m, I, i, x) ==
  IF i > x THEN V
  ELSE LoadRegs(SetV(V, i, MemRead(m, (I + i) % MEMORY_SIZE)), m, I, i + 1, x)

Min(a, b) == IF a < b THEN a ELSE b

\* _misc whose FX55 and FX65 leave I after the last byte
_misc_IncrementsI(c, x, nn) ==
  LET adv(d) == Ok([d EXCEPT !.PC = @ + 2])
  IN  CASE nn = 7 -> adv([c EXCEPT !.V = SetV(@, x, c.DT)])
        [] nn = 10 -> Ok([c EXCEPT !.wait_key = TRUE, !.wait_reg = x])
        [] nn = 21 -> adv([c EXCEPT !.DT = c.V[x]])
        [] nn = 24 -> adv([c EXCEPT !.ST = c.V[x]])
        [] nn = 30 -> adv([c EXCEPT !.I = (c.I + c.V[x]) % 65536])
        [] nn = 41 -> adv([c EXCEPT !.I = (c.V[x] % 16) * 5])
        [] nn = 48 -> adv([c EXCEPT !.I = 80 + (c.V[x] % 16) * 10])
        [] nn = 51 -> LET r == _misc_bcd(c, x)
                      IN  IF r.exc THEN r ELSE adv(r.cpu)
        [] nn = 85 -> adv([c EXCEPT !.mem = StoreRegs(@, c.V, c.I, 0, x),
                                    !.I = (@ + x + 1) % 65536])
        [] nn = 101 -> adv([c EXCEPT !.V = LoadRegs(@, c.mem, c.I, 0, x),
                                     !.I = (@ + x + 1) % 65536])
        [] nn = 117 ->
             adv([c EXCEPT !.rpl = [i \in 0 .. NUM_RPL - 1 |->
                                      IF i < Min(x + 1, 8) THEN c.V[i] ELSE @[i]]])
        [] nn = 133 ->
             adv([c EXCEPT !.V = [i \in 0 .. NUM_REGS - 1 |->
                                    IF i < Min(x + 1, 8) THEN c.rpl[i] ELSE @[i]]])
        [] OTHER -> adv(c)

_misc(c, x, nn) ==
  LET adv(d) == Ok([d EXCEPT !.PC = @ + 2])
  IN  CASE nn = 7 -> adv([c EXCEPT !.V = SetV(@, x, c.DT)])
        [] nn = 10 -> Ok([c EXCEPT !.wait_key = TRUE, !.wait_reg = x])
        [] nn = 21 -> adv([c EXCEPT !.DT = c.V[x]])
        [] nn = 24 -> adv([c EXCEPT !.ST = c.V[x]])
        [] nn = 30 -> adv([c EXCEPT !.I = (c.I + c.V[x]) % 65536])
        [] nn = 41 -> adv([c EXCEPT !.I = (c.V[x] % 16) * 5])
        [] nn = 48 -> adv([c EXCEPT !.I = 80 + (c.V[x] % 16) * 10])
        [] nn = 51 -> LET r == _misc_bcd(c, x)
                      IN  IF r.exc THEN r ELSE adv(r.cpu)
        [] nn = 85 -> adv([c EXCEPT !.mem = StoreRegs(@, c.V, c.I, 0, x)])
        [] nn = 101 -> adv([c EXCEPT !.V = LoadRegs(@, c.mem, c.I, 0, x)])
        [] nn = 117 ->
             adv([c EXCEPT !.rpl = [i \in 0 .. NUM_RPL - 1 |->
                                      IF i < Min(x + 1, 8) THEN c.V[i] ELSE @[i]]])
        [] nn = 133 ->
             adv([c EXCEPT !.V = [i \in 0 .. NUM_REGS - 1 |->
                                    IF i < Min(x + 1, 8) THEN c.rpl[i] ELSE @[i]]])
        [] OTHER -> adv(c)

----------------------------------------------------------------------------
(* CPU._exec, CPU.step                                                     *)

\* an opcode 0NNN leaves PC where it is
_exec_sys_Stays(c) == c

\* elif hi == 0: the machine-code call 0NNN is ignored
_exec_sys(c) == [c EXCEPT !.PC = @ + 2]


\* 2NNN that pushes the address of the next instruction
_exec_call_PushNext(c, nnn) ==
  LET i == ListIndex(c.SP, STACK_SIZE)
  IN  IF i = -1 THEN Raise(c)
      ELSE Ok([c EXCEPT !.stack = [@ EXCEPT ![i] = c.PC + 2],
                        !.SP = @ + 1,
                        !.PC = nnn])

\* elif hi == 2: stack[SP] = PC; SP += 1; PC = nnn (stack[16] raises)
_exec_call(c, nnn) ==
  LET i == ListIndex(c.SP, STACK_SIZE)
  IN  IF i = -1 THEN Raise(c)
      ELSE Ok([c EXCEPT !.stack = [@ EXCEPT ![i] = c.PC],
                        !.SP = @ + 1,
                        !.PC = nnn])


\* a mode switch that blanks both planes
SetHires_Clears(c, h) == [c EXCEPT !.hires = h, !.gfx = {}, !.gfx_hi = {}]

\* 00FE: self.hires = False; 00FF: self.hires = True
SetHires(c, h) == [c EXCEPT !.hires = h]


\* 7XNN that writes the carry to VF, as 8XY4 does
_exec_add_Carry(c, x, nn) ==
  [c EXCEPT !.V = SetV(SetV(@, x, (c.V[x] + nn) % 256), 15,
                       IF c.V[x] + nn > 255 THEN 1 ELSE 0)]

\* elif hi == 7: V[x] = (V[x] + nn) & 0xFF
_exec_add(c, x, nn) == [c EXCEPT !.V = SetV(@, x, (c.V[x] + nn) % 256)]

\* CXNN draws rnd = random.randint(0, 255)
_exec(c, op, rnd) ==
  LET nnn == op % 4096
      nn  == op % 256
      n   == op % 16
      x   == (op \div 256) % 16
      y   == (op \div 16) % 16
      hi  == (op \div 4096) % 16
      adv(d, k) == Ok([d EXCEPT !.PC = @ + k])
      skip(b) == adv(c, IF b THEN 4 ELSE 2)
  IN  CASE op = 224 -> adv([SetDisplay(c, {}) EXCEPT !.draw_flag = TRUE], 2)
        [] op = 238 ->
             LET c1 == [c EXCEPT !.SP = @ - 1]
                 i  == ListIndex(c1.SP, STACK_SIZE)
             IN  IF i = -1 THEN Raise(c1)
                 ELSE Ok([c1 EXCEPT !.PC = c1.stack[i] + 2])
        [] op = 251 -> adv(_scroll_r(c), 2)
        [] op = 252 -> adv(_scroll_l(c), 2)
        [] op = 253 -> Ok([c EXCEPT !.halted = TRUE])
        [] op = 254 -> adv(SetHires(c, FALSE), 2)
        [] op = 255 -> adv(SetHires(c, TRUE), 2)
        [] OTHER ->
           CASE hi = 0 /\ (op \div 16) % 16 = 12 -> adv(_scroll_d(c, n), 2)
             [] hi = 0 /\ (op \div 16) % 16 # 12 -> Ok(_exec_sys(c))
             [] hi = 1 -> Ok([c EXCEPT !.PC = nnn])
             [] hi = 2 -> _exec_call(c, nnn)
             [] hi = 3 -> skip(c.V[x] = nn)
             [] hi = 4 -> skip(c.V[x] # nn)
             [] hi = 5 /\ n = 0 -> skip(c.V[x] = c.V[y])
             [] hi = 6 -> adv([c EXCEPT !.V = SetV(@, x, nn)], 2)
             [] hi = 7 -> adv(_exec_add(c, x, nn), 2)
             [] hi = 8 -> adv(_alu(c, x, y, n), 2)
             [] hi = 9 /\ n = 0 -> skip(c.V[x] # c.V[y])
             [] hi = 10 -> adv([c EXCEPT !.I = nnn], 2)
             [] hi = 11 -> Ok([c EXCEPT !.PC = nnn + c.V[0]])
             [] hi = 12 -> adv([c EXCEPT !.V = SetV(@, x, BitAnd(rnd, nn))], 2)
             [] hi = 13 -> adv(_draw(c, x, y, n), 2)
             [] hi = 14 ->
                  LET k == c.V[x] % 16
                  IN  IF nn = 158 THEN skip(c.keys[k] # 0)
                      ELSE IF nn = 161 THEN skip(c.keys[k] = 0)
                      ELSE adv(c, 2)
             [] hi = 15 -> _misc(c, x, nn)
             [] OTHER -> adv(c, 2)

\* step() stops for halted only
step_gated_HaltOnly(c) == c.halted

\* the early return of step()
step_gated(c) == c.halted \/ c.wait_key

step(c, rnd) ==
  IF step_gated(c) THEN Ok(c)
  ELSE LET a0 == ListIndex(c.PC, MEMORY_SIZE)
           a1 == ListIndex(c.PC + 1, MEMORY_SIZE)
       IN  IF a0 = -1 \/ a1 = -1 THEN Raise(c)
           ELSE LET op == MemRead(c.mem, a0) * 256 + MemRead(c.mem, a1)
                    r  == _exec(c, op, rnd)
                IN  IF r.exc THEN r
                    ELSE Ok([r.cpu EXCEPT !.cycles = @ + 1])

\* the opcode step() would fetch (0 when the fetch is out of range)
Fetch(c) ==
  IF ListIndex(c.PC, MEMORY_SIZE) = -1 \/ ListIndex(c.PC + 1, MEMORY_SIZE) = -1
    THEN 0
    ELSE MemRead(c.mem, c.PC) * 256 + MemRead(c.mem, c.PC + 1)

----------------------------------------------------------------------------
(* CPU.tick_timers, CPU.key_down, CPU.key_up                               *)

\* tick_timers that stands still while step() does
tick_timers_WhileRunning(c) ==
  IF c.halted \/ c.wait_key THEN c
  ELSE [c EXCEPT !.DT = IF @ > 0 THEN @ - 1 ELSE @,
                 !.ST = IF @ > 0 THEN @ - 1 ELSE @]

tick_timers(c) ==
  [c EXCEPT !.DT = IF @ > 0 THEN @ - 1 ELSE @,
            !.ST = IF @ > 0 THEN @ - 1 ELSE @]

\* key_down that resolves the wait without moving PC
key_down_NoAdvance(c, k) ==
  IF 0 <= k /\ k < 16
    THEN LET c1 == [c EXCEPT !.keys = [@ EXCEPT ![k] = 1]]
         IN  IF c1.wait_key
               THEN [c1 EXCEPT !.V = SetV(@, c1.wait_reg, k),
                               !.wait_key = FALSE]
               ELSE c1
    ELSE c


\* key_down that resolves the wait for a k outside 0..15 too
key_down_Unchecked(c, k) ==
  LET c1 == IF 0 <= k /\ k < 16 THEN [c EXCEPT !.keys = [@ EXCEPT ![k] = 1]] ELSE c
  IN  IF c1.wait_key
        THEN [c1 EXCEPT !.V = SetV(@, c1.wait_reg, k),
                        !.wait_key = FALSE,
                        !.PC = @ + 2]
        ELSE c1

key_down(c, k) ==
  IF 0 <= k /\ k < 16
    THEN LET c1 == [c EXCEPT !.keys = [@ EXCEPT ![k] = 1]]
         IN  IF c1.wait_key
               THEN [c1 EXCEPT !.V = SetV(@, c1.wait_reg, k),
                               !.wait_key = FALSE,
                               !.PC = @ + 2]
               ELSE c1
    ELSE c

key_up(c, k) ==
  IF 0 <= k /\ k < 16 THEN [c EXCEPT !.keys = [@ EXCEPT ![k] = 0]] ELSE c

----------------------------------------------------------------------------
(* CPU.state, CPU.restore                                                  *)

state(c) ==
  [ mem |-> c.mem, V |-> c.V, I |-> c.I, PC |-> c.PC,
    stack |-> c.stack, SP |-> c.SP, DT |-> c.DT, ST |-> c.ST,
    hires |-> c.hires, gfx |-> c.gfx, gfx_hi |-> c.gfx_hi,
    cycles |-> c.cycles ]

\* restore that leaves the mode flag as it is
restore_NoHires(c, s) ==
  [c EXCEPT !.mem = s.mem, !.V = s.V, !.I = s.I, !.PC = s.PC,
            !.stack = s.stack, !.SP = s.SP, !.DT = s.DT, !.ST = s.ST,
            !.gfx = s.gfx, !.gfx_hi = s.gfx_hi,
            !.cycles = s.cycles,
            !.draw_flag = TRUE]

\* restore that leaves I and PC as they are
restore_SkipsIPC(c, s) ==
  [c EXCEPT !.mem = s.mem, !.V = s.V,
            !.stack = s.stack, !.SP = s.SP, !.DT = s.DT, !.ST = s.ST,
            !.hires = s.hires, !.gfx = s.gfx, !.gfx_hi = s.gfx_hi,
            !.cycles = s.cycles,
            !.draw_flag = TRUE]

\* restore that also ends a key wait
restore_ClearsWait(c, s) ==
  [c EXCEPT !.mem = s.mem, !.V = s.V, !.I = s.I, !.PC = s.PC,
            !.stack = s.stack, !.SP = s.SP, !.DT = s.DT, !.ST = s.ST,
            !.hires = s.hires, !.gfx = s.gfx, !.gfx_hi = s.gfx_hi,
            !.cycles = s.cycles,
            !.draw_flag = TRUE,
            !.wait_key = FALSE]


\* restore that also clears the halted flag
restore_Unhalts(c, s) ==
  [c EXCEPT !.mem = s.mem, !.V = s.V, !.I = s.I, !.PC = s.PC,
            !.stack = s.stack, !.SP = s.SP, !.DT = s.DT, !.ST = s.ST,
            !.hires = s.hires, !.gfx = s.gfx, !.gfx_hi = s.gfx_hi,
            !.cycles = s.cycles,
            !.draw_flag = TRUE,
            !.halted = FALSE]

restore(c, s) ==
  [c EXCEPT !.mem = s.mem, !.V = s.V, !.I = s.I, !.PC = s.PC,
            !.stack = s.stack, !.SP = s.SP, !.DT = s.DT, !.ST = s.ST,
            !.hires = s.hires, !.gfx = s.gfx, !.gfx_hi = s.gfx_hi,
            !.cycles = s.cycles,
            !.draw_flag = TRUE]

\* The list-valued entries of a state() record.  Each is a Python list; the
\* record and the CPU hold the same list object only where one was handed
\* over without a copy.
ListFields == {"V", "stack", "gfx", "gfx_hi"}

\* the entries state() returns WITHOUT copying (V[:], stack[:], [r[:] ...])
state_uncopied == {}

\* restore() installs the record's planes themselves (self.gfx = s['gfx'])
restore_uncopied_Planes == {"gfx", "gfx_hi"}

\* the entries restore() installs WITHOUT copying
restore_uncopied == {}

\* an in-place write to the CPU's lists shows in every record sharing them
WriteThrough(s, c, shared) ==
  [f \in DOMAIN s |-> IF f \in shared THEN c[f] ELSE s[f]]

----------------------------------------------------------------------------
(* Inputs                                                                  *)

MaxCycles == 4

MaxLoads == 1

MaxReloads == 2

MaxRtSteps == 3

\* ROM images handed to load_bytes
RomScenario == <<96, 5, 97, 10, 128, 20, 18, 8>>           \* 6005 610A 8014 1208
RomKeyWait == <<240, 10, 18, 2>>                           \* F00A 1202
RomCallLoop == <<34, 0>>                                   \* 2200
RomRet == <<0, 238>>                                       \* 00EE
RomBcdEdge == <<96, 123, 175, 254, 240, 51>>               \* 607B AFFE F033
RomHalt == <<96, 5, 240, 117, 0, 253>>                     \* 6005 F075 00FD
RomRnd == <<240, 133, 192, 15, 112, 1, 240, 117>>          \* F085 C00F 7001 F075
RomDraw == <<0, 255, 208, 5, 209, 32, 0, 193>>             \* 00FF D005 D120 00C1
RomTimers == <<96, 2, 240, 21, 240, 24, 241, 7>>           \* 6002 F015 F018 F107
RomJumpEnd == <<96, 255, 191, 255>>                        \* 60FF BFFF
RomMaxSize == [i \in 1 .. MEMORY_SIZE - PROGRAM_START |->
                 IF i = 1 THEN 31 ELSE IF i = 2 THEN 254
                 ELSE IF i = MEMORY_SIZE - PROGRAM_START THEN 1 ELSE 0]   \* 1FFE ... 01
RomOversized == [i \in 1 .. MEMORY_SIZE - PROGRAM_START + 1 |-> 1]
RomEmpty == << >>

\* the ROMs of Spec and SpecRoundTrip
Roms == << RomKeyWait, RomRet, RomBcdEdge, RomHalt, RomRnd, RomDraw, RomTimers,
           RomJumpEnd >>

\* the ROMs of SpecReload: those, and the sizes around the limit of load_bytes
AllRoms == Roms \o << RomScenario, RomCallLoop, RomMaxSize, RomOversized, RomEmpty >>

\* values random.randint(0, 255) may return
RandBytes == {0, 165, 255}

\* arguments of key_down / key_up (16 is not a key)
KeyInputs == {7, 16}

NoSave == [none |-> TRUE]

----------------------------------------------------------------------------
(* Observer of the run "state(); k x step(); restore(); k x step()".       *)
(* It only watches: no action reads it except the guards of NextRoundTrip. *)

\* the attributes state() leaves out that step() reads or writes
Unsaved(c) == [halted |-> c.halted, wait_key |-> c.wait_key, rpl |-> c.rpl]

\* step() on c executes CXNN
ExecutesRnd(c) ==
  /\ ~(c.halted \/ c.wait_key)
  /\ ListIndex(c.PC, MEMORY_SIZE) # -1 /\ ListIndex(c.PC + 1, MEMORY_SIZE) # -1
  /\ MemRead(c.mem, c.PC) \div 16 = 12

RtOff == [on |-> FALSE, phase |-> 0, k |-> 0, m |-> 0, end |-> NoSave,
          rnd |-> FALSE, pre |-> NoSave, same |-> FALSE]

RtIdle == [RtOff EXCEPT !.on = TRUE]

\* the observer after call op took the CPU from c to d
RtNext(r, op, c, d) ==
  IF ~r.on THEN r
  ELSE CASE op = "state" -> [RtIdle EXCEPT !.phase = 1, !.pre = Unsaved(c)]
         [] op = "step" /\ r.phase = 0 -> r
         [] op = "step" /\ r.phase = 1 ->
              [r EXCEPT !.k = @ + 1, !.rnd = @ \/ ExecutesRnd(c)]
         [] op = "restore" /\ r.phase = 1 ->
              [r EXCEPT !.phase = 2, !.end = state(c),
                        !.same = (Unsaved(c) = r.pre)]
         [] op = "step" /\ r.phase = 2 -> [r EXCEPT !.m = @ + 1]
         [] OTHER -> RtIdle


----------------------------------------------------------------------------
(* Emulator.timer_acc: a Python float (IEEE-754 double), in milliseconds   *)
(* Every value the accumulator takes is a multiple of 2^-48 ms below 128,  *)
(* held as <<h, l>> = (h * 2^24 + l) * 2^-48 with 0 <= l < 2^24.  Doubles  *)
(* are spaced 2^-48 apart below 32, 2^-47 in [32, 64) and 2^-46 in         *)
(* [64, 128); a sum or difference is rounded to the nearest of them, ties  *)
(* to the even one.                                                        *)

TIMER_HZ == 60

AccUnit == 16777216

AccZero == <<0, 0>>

AccNorm(h, l) == <<h + l \div AccUnit, l % AccUnit>>

AccGeq(a, b) == a[1] > b[1] \/ (a[1] = b[1] /\ a[2] >= b[2])

AccRound(a) ==
  LET g    == IF a[1] < 32 * AccUnit THEN 1 ELSE IF a[1] < 64 * AccUnit THEN 2 ELSE 4
      r    == a[2] % g
      down == AccNorm(a[1], a[2] - r)
      up   == AccNorm(a[1], a[2] - r + g)
  IN  IF r = 0 THEN a
      ELSE IF 2 * r < g THEN down
      ELSE IF 2 * r > g THEN up
      ELSE IF (down[2] \div g) % 2 = 0 THEN down ELSE up

\* timer_acc += dt, dt an int of milliseconds
AccAdd(a, dt) == AccRound(<<a[1] + dt * AccUnit, a[2]>>)

\* timer_acc -= 1000 / TIMER_HZ
AccSub(a, b) == AccRound(AccNorm(a[1] - b[1], a[2] - b[2]))

\* 1000 / TIMER_HZ: the double nearest to 16.666..., 16.666666666666668
TimerPeriod ==
  LET r  == 1000 % TIMER_HZ
      r2 == (r * AccUnit) % TIMER_HZ
  IN  << (1000 \div TIMER_HZ) * AccUnit + (r * AccUnit) \div TIMER_HZ,
         (r2 * AccUnit + TIMER_HZ \div 2) \div TIMER_HZ >>

----------------------------------------------------------------------------
(* class Sound, class Emulator                                             *)

\* Emulator.__init__.  sound: whether pygame.mixer gave Sound a tone
\* (self.sound is not None).  has_rom, rom: cpu.rom_path names a file, and
\* the bytes it holds.  running: Emulator.run has not been left.  steps,
\* ticks: the calls of cpu.step() and cpu.tick_timers() that the last _update
\* made; stepped: _step was used since then; frames: the frames completed.
HostInit(sound) ==
  [ sound |-> sound, playing |-> FALSE,
    paused |-> TRUE, speed |-> 12, timer_acc |-> AccZero,
    has_rom |-> FALSE, rom |-> << >>,
    running |-> TRUE,
    steps |-> 0, ticks |-> 0, stepped |-> FALSE, frames |-> 0 ]

\* Sound.play, Sound.stop
Sound_play(h) == IF h.sound /\ ~h.playing THEN [h EXCEPT !.playing = TRUE] ELSE h

Sound_stop(h) == IF h.sound /\ h.playing THEN [h EXCEPT !.playing = FALSE] ELSE h

\* the value of a statement whose operand v is computed once
Once(S) == CHOOSE v \in S : TRUE

\* for _ in range(self.speed): self.cpu.step()
RECURSIVE StepTimes(_, _, _)
StepTimes(c, n, rnd) ==
  IF n = 0 THEN Ok(c)
  ELSE Once({ IF r.exc THEN r ELSE StepTimes(r.cpu, n - 1, rnd) :
              r \in {step(c, rnd)} })

\* while self.timer_acc >= 1000 / TIMER_HZ: tick_timers(); timer_acc -= ...
RECURSIVE TickWhile(_, _, _)
TickWhile(c, acc, n) ==
  IF AccGeq(acc, TimerPeriod)
    THEN Once({ TickWhile(c1, a1, n + 1) :
                c1 \in {tick_timers(c)}, a1 \in {AccSub(acc, TimerPeriod)} })
    ELSE [cpu |-> c, acc |-> acc, n |-> n]

\* if self.cpu.ST > 0: self.sound.play() else: self.sound.stop()
_update_tone(h, c) == IF c.ST > 0 THEN Sound_play(h) ELSE Sound_stop(h)

\* Emulator._update(dt).  An exception of step() leaves _update and run().
_update(h, c, dt, rnd) ==
  IF h.paused \/ ~c.loaded
    THEN [host |-> [h EXCEPT !.steps = 0, !.ticks = 0], cpu |-> c, exc |-> FALSE]
  ELSE Once({
         IF r.exc
           THEN [host |-> [h EXCEPT !.running = FALSE, !.steps = 0, !.ticks = 0],
                 cpu |-> r.cpu, exc |-> TRUE]
           ELSE Once({ [host |-> _update_tone([h EXCEPT !.timer_acc = t.acc,
                                                        !.steps = h.speed,
                                                        !.ticks = t.n], t.cpu),
                        cpu |-> t.cpu, exc |-> FALSE] :
                       t \in {TickWhile(r.cpu, AccAdd(h.timer_acc, dt), 0)} }) :
         r \in {StepTimes(c, h.speed, rnd)} })

----------------------------------------------------------------------------
(* The calls a host makes on the CPU                                       *)

Called(op, arg, ret, exc) == [op |-> op, arg |-> arg, ret |-> ret, exc |-> exc]

\* alias.how: which call last tied the CPU's lists to those of saves[0]
\* ("state": the record was built from the CPU's lists; "restore": the CPU's
\* lists were built from the record's; "none": reset() made the CPU's lists);
\* alias.shared: the entries that are one list object in both
Alias(how, shared) == [how |-> how, shared |-> shared]

Shared(s, c, al) == IF s = NoSave THEN s ELSE WriteThrough(s, c, al.shared)

\* loads.n: the calls of load_bytes / reset so far; loads.over: whether the
\* last load was made over a CPU in use (noted in SpecReload only)
Loads(n, over) == [n |-> n, over |-> over]

\* a CPU that ran a program, holds a key down and has a register or pixel set
InUse(c) ==
  /\ c.cycles > 0
  /\ c.keys # ZeroKeys
  /\ c.mem # reset(c).mem
  /\ c.PC # PROGRAM_START
  /\ (c.V # ZeroRegs \/ c.gfx # {} \/ c.gfx_hi # {})

Init ==
  /\ host = HostInit(TRUE)
  /\ cpu = reset([mem |-> ZeroMem])
  /\ saves = NoSave
  /\ alias = Alias("none", {})
  /\ last = Called("init", 0, TRUE, FALSE)
  /\ loads = Loads(0, FALSE)
  /\ rt = RtOff

LoadUpTo(i, max, over) ==
  /\ UNCHANGED host
  /\ loads.n < max
  /\ loads' = Loads(loads.n + 1, over)
  /\ cpu' = load_bytes(cpu, AllRoms[i])
  /\ last' = Called("load", i, ~load_rejects(AllRoms[i]), FALSE)
  /\ alias' = IF load_rejects(AllRoms[i]) THEN alias ELSE Alias("none", {})
  /\ saves' = saves
  /\ rt' = RtNext(rt, "load", cpu, cpu')

Load(i) == LoadUpTo(i, MaxLoads, FALSE)

\* a load that also notes whether the CPU was in use
Reload(i) == LoadUpTo(i, MaxReloads, InUse(cpu))

Reset ==
  /\ UNCHANGED host
  /\ loads.n < MaxLoads
  /\ loads' = Loads(loads.n + 1, FALSE)
  /\ cpu' = reset(cpu)
  /\ last' = Called("reset", 0, TRUE, FALSE)
  /\ alias' = Alias("none", {})
  /\ saves' = saves
  /\ rt' = RtNext(rt, "reset", cpu, cpu')

Step(rnd) ==
  /\ UNCHANGED host
  /\ cpu.cycles < MaxCycles
  /\ LET r == step(cpu, rnd)
     IN  /\ cpu' = r.cpu
         /\ last' = Called("step", 0, TRUE, r.exc)
         /\ saves' = Shared(saves, r.cpu, alias)
  /\ rt' = RtNext(rt, "step", cpu, cpu')
  /\ UNCHANGED <<alias, loads>>

TickTimers ==
  /\ UNCHANGED host
  /\ cpu' = tick_timers(cpu)
  /\ last' = Called("tick_timers", 0, TRUE, FALSE)
  /\ rt' = RtNext(rt, "tick_timers", cpu, cpu')
  /\ UNCHANGED <<saves, alias, loads>>

KeyDown(k) ==
  /\ UNCHANGED host
  /\ cpu' = key_down(cpu, k)
  /\ last' = Called("key_down", k, TRUE, FALSE)
  /\ saves' = Shared(saves, cpu', alias)
  /\ rt' = RtNext(rt, "key_down", cpu, cpu')
  /\ UNCHANGED <<alias, loads>>

KeyUp(k) ==
  /\ UNCHANGED host
  /\ cpu' = key_up(cpu, k)
  /\ last' = Called("key_up", k, TRUE, FALSE)
  /\ rt' = RtNext(rt, "key_up", cpu, cpu')
  /\ UNCHANGED <<saves, alias, loads>>

\* Emulator._save: saves[0] = cpu.state()
Save ==
  /\ UNCHANGED host
  /\ saves' = state(cpu)
  /\ alias' = Alias("state", state_uncopied)
  /\ last' = Called("state", 0, TRUE, FALSE)
  /\ rt' = RtNext(rt, "state", cpu, cpu)
  /\ UNCHANGED <<cpu, loads>>

\* Emulator._load: cpu.restore(saves[0])
Restore ==
  /\ UNCHANGED host
  /\ saves # NoSave
  /\ cpu' = restore(cpu, saves)
  /\ alias' = Alias("restore", restore_uncopied)
  /\ last' = Called("restore", 0, TRUE, FALSE)
  /\ rt' = RtNext(rt, "restore", cpu, cpu')
  /\ UNCHANGED <<saves, loads>>

Next ==
  \/ \E i \in 1 .. Len(Roms) : Load(i)
  \/ Reset
  \/ \E rnd \in RandBytes : Step(rnd)
  \/ TickTimers
  \/ \E k \in KeyInputs : KeyDown(k)
  \/ \E k \in KeyInputs : KeyUp(k)
  \/ Save
  \/ Restore

Spec == Init /\ [][Next]_vars

\* The same calls without snapshots, with a ROM loaded over a used CPU
NextReload ==
  \/ \E i \in 1 .. Len(AllRoms) : Reload(i)
  \/ \E rnd \in RandBytes : Step(rnd)
  \/ TickTimers
  \/ \E k \in KeyInputs : KeyDown(k)
  \/ \E k \in KeyInputs : KeyUp(k)

SpecReload == Init /\ [][NextReload]_vars

\* The runs "load; calls; state(); k x step(); restore(); k x step()"
InitRoundTrip ==
  /\ host = HostInit(TRUE)
  /\ cpu = reset([mem |-> ZeroMem])
  /\ saves = NoSave
  /\ alias = Alias("none", {})
  /\ last = Called("init", 0, TRUE, FALSE)
  /\ loads = Loads(0, FALSE)
  /\ rt = RtIdle

NextRoundTrip ==
  \/ rt.phase = 0 /\ \E i \in 1 .. Len(Roms) : Load(i)
  \/ rt.phase = 0 /\ TickTimers
  \/ rt.phase = 0 /\ \E k \in KeyInputs : KeyDown(k)
  \/ rt.phase = 0 /\ \E k \in KeyInputs : KeyUp(k)
  \/ rt.phase = 0 /\ Save
  \/ /\ rt.phase = 1 => rt.k < MaxRtSteps
     /\ rt.phase = 2 => rt.m < rt.k
     /\ \E rnd \in RandBytes : Step(rnd)
  \/ rt.phase = 1 /\ Restore

SpecRoundTrip == InitRoundTrip /\ [][NextRoundTrip]_vars

----------------------------------------------------------------------------
(* Programs built from operands, and the calls that run them               *)

\* load_bytes(data) for any ROM image (these loads are not counted)
LoadProgram(data) ==
  /\ UNCHANGED host
  /\ cpu' = load_bytes(cpu, data)
  /\ last' = Called("load", 0, ~load_rejects(data), FALSE)
  /\ alias' = IF load_rejects(data) THEN alias ELSE Alias("none", {})
  /\ rt' = RtNext(rt, "load", cpu, cpu')
  /\ UNCHANGED <<saves, loads>>

\* Emulator._update: step() of a loaded CPU, with no bound on the cycle
\* counter (for programs that end in 00FD)
Run(rnd) ==
  /\ UNCHANGED host
  /\ cpu.loaded
  /\ LET r == step(cpu, rnd)
     IN  /\ cpu' = r.cpu
         /\ last' = Called("step", 0, TRUE, r.exc)
         /\ saves' = Shared(saves, r.cpu, alias)
  /\ rt' = RtNext(rt, "step", cpu, cpu')
  /\ UNCHANGED <<alias, loads>>

\* 6xaa 6ybb, one instruction o = <<high byte, low byte, whether it names Vy>>
\* on Vx (and Vy), then 00FD
Program(x, y, a, b, o) ==
  << 96 + x, a, 96 + y, b,
     o[1] + x, IF o[3] THEN 16 * y + o[2] ELSE o[2],
     0, 253 >>

\* the opcode of Program(x, y, a, b, o)'s third instruction
ProgramOp(x, y, o) == (o[1] + x) * 256 + (IF o[3] THEN 16 * y + o[2] ELSE o[2])

\* AFFF 60FF, then F01E 241 times (I passes 0xFFFF), then 00FD
ProgramAddI ==
  <<175, 255, 96, 255>>
    \o [i \in 1 .. 482 |-> IF i % 2 = 1 THEN 240 ELSE 30]
    \o <<0, 253>>

\* every instruction that writes V, I, DT or ST
RangeOps ==
  { <<128, n, TRUE>> : n \in {0, 1, 2, 3, 4, 5, 6, 7, 14} }
    \cup { <<112, 255, FALSE>>, <<192, 255, FALSE>>, <<208, 1, TRUE>> }
    \cup { <<240, nn, FALSE>> :
             nn \in {7, 10, 21, 24, 30, 41, 48, 51, 85, 101, 117, 133} }

RangeRegs == { <<0, 1>>, <<15, 15>> }

RangeVals == { <<255, 1>>, <<1, 255>>, <<128, 128>> }

\* FX15 / FX18 are given Vx = 1 only: a timer started at 255 multiplies the
\* states by the ticks it takes to run down
RangeCases ==
  { c \in RangeRegs \X RangeVals \X RangeOps :
      (c[3][1] = 240 /\ c[3][2] \in {21, 24})
        => (IF c[1][1] = c[1][2] THEN c[2][2] ELSE c[2][1]) = 1 }

RangePrograms ==
  { Program(c[1][1], c[1][2], c[2][1], c[2][2], c[3]) : c \in RangeCases }
    \cup { ProgramAddI }

\* state() is called within the first MaxSnapCycles cycles of a program
MaxSnapCycles == 3

\* One program loaded into the CPU as constructed and run to its end, with
\* ticks, snapshots, and the key events that write a register (those that
\* arrive while the CPU waits; the others write keys only)
NextRange ==
  \/ ~cpu.loaded /\ \E p \in RangePrograms : LoadProgram(p)
  \/ \E rnd \in RandBytes : Run(rnd)
  \/ TickTimers
  \/ cpu.wait_key /\ \E k \in KeyInputs : KeyDown(k)
  \/ cpu.cycles <= MaxSnapCycles /\ Save
  \/ Restore

SpecRange == Init /\ [][NextRange]_vars

\* 60aa F015 60bb F018, then F10A if w, then 00FD
TimerProgram(a, b, w) ==
  <<96, a, 240, 21, 96, b, 240, 24>>
    \o (IF w THEN <<241, 10>> ELSE << >>)
    \o <<0, 253>>

TimerVals == {0, 1, 3}

\* A program that starts both timers and then waits or halts, with ticks
\* and key events at any moment
NextTimers ==
  \/ ~cpu.loaded /\ \E a \in TimerVals, b \in TimerVals, w \in BOOLEAN :
                      LoadProgram(TimerProgram(a, b, w))
  \/ \E rnd \in RandBytes : Run(rnd)
  \/ TickTimers
  \/ \E k \in KeyInputs : KeyDown(k)
  \/ \E k \in KeyInputs : KeyUp(k)

SpecTimers == Init /\ [][NextTimers]_vars

AluRegs == {0, 1, 15}

AluVals == {0, 1, 2, 15, 128, 240, 255}

\* 8XY1, 8XY2, 8XY3, 8XY4
AluOps == { <<128, n, TRUE>> : n \in {1, 2, 3, 4} }

\* 6xaa 6ybb 8xyn 00FD for every choice of registers and operands
NextAlu ==
  \/ ~cpu.loaded /\ \E x \in AluRegs, y \in AluRegs, a \in AluVals, b \in AluVals,
                       o \in AluOps : LoadProgram(Program(x, y, a, b, o))
  \/ \E rnd \in RandBytes : Run(rnd)

SpecAlu == Init /\ [][NextAlu]_vars

\* sprite data: 32 bytes, enough for the 16x16 form
SpriteLit ==
  << 255, 129, 60, 1, 128, 24, 0, 255, 170, 85, 15, 240, 3, 192, 102, 153,
     255, 0, 0, 255, 1, 128, 129, 126, 231, 24, 36, 66, 90, 165, 195, 255 >>

SpriteBlank == [i \in 1 .. 32 |-> 0]

\* A program that draws in both planes.  hi: the mode under test; same: the
\* background of the plane under test is the sprite itself.
\*   0x200  00FE|00FF  6x vx  6y vy  A240  Dxy3     (the other plane)
\*   0x20A  00FF|00FE  6x vx  6y vy  A241|A240  Dxy2|Dxyn  (a background)
\*   0x214  6x vx  6y vy  A240  Dxyn  Dxyn  00E0  00FD
\*   0x240  the sprite
DrawProgram(hi, x, y, vx, vy, n, same, spr) ==
  LET setxy == <<96 + x, vx, 96 + y, vy>>
      drw(k) == <<208 + x, 16 * y + k>>
  IN  <<0, IF hi THEN 254 ELSE 255>> \o setxy \o <<162, 64>> \o drw(3)
        \o <<0, IF hi THEN 255 ELSE 254>> \o setxy
        \o (IF same THEN <<162, 64>> \o drw(n) ELSE <<162, 65>> \o drw(2))
        \o setxy \o <<162, 64>> \o drw(n) \o drw(n) \o <<0, 224, 0, 253>>
        \o [i \in 1 .. 30 |-> 0]
        \o spr

DrawRegs == { <<0, 1>>, <<15, 1>>, <<1, 15>> }

DrawXs == {1, 126, 200}

DrawYs == {1, 63}

DrawRows == {0, 1, 5, 15}

DrawPrograms ==
  { DrawProgram(hi, r[1], r[2], vx, vy, n, same, spr) :
      hi \in BOOLEAN, r \in DrawRegs, vx \in DrawXs, vy \in DrawYs,
      n \in DrawRows, same \in BOOLEAN, spr \in {SpriteLit} }
    \cup { DrawProgram(hi, 0, 1, 1, 1, n, FALSE, SpriteBlank) :
             hi \in BOOLEAN, n \in DrawRows }

\* the instruction at PC is DXYN
AtDraw(c) == Fetch(c) \div 4096 = 13

\* One drawing program run to its end; state() is called before a draw
NextDraw ==
  \/ ~cpu.loaded /\ \E p \in DrawPrograms : LoadProgram(p)
  \/ \E rnd \in RandBytes : Run(rnd)
  \/ AtDraw(cpu) /\ Save

SpecDraw == Init /\ [][NextDraw]_vars


\* The ROM 60 05 61 0A 80 14 12 08 loaded into the CPU as constructed and
\* stepped for as long as the host steps it
NextScenario ==
  \/ ~cpu.loaded /\ LoadProgram(RomScenario)
  \/ \E rnd \in RandBytes : Run(rnd)

SpecScenario == Init /\ [][NextScenario]_vars


\* 8XY5, 8XY6, 8XY7, 8XYE
SubShiftOps == { <<128, n, TRUE>> : n \in {5, 6, 7, 14} }

\* 6xaa 6ybb 8xyn 00FD for every choice of registers and operands
NextSubShift ==
  \/ ~cpu.loaded /\ \E x \in AluRegs, y \in AluRegs, a \in AluVals, b \in AluVals,
                       o \in SubShiftOps : LoadProgram(Program(x, y, a, b, o))
  \/ \E rnd \in RandBytes : Run(rnd)

SpecSubShift == Init /\ [][NextSubShift]_vars


\* A program that draws in both planes and then executes one opcode with
\* high nibble 0.  hi: the mode the opcode runs in (the program has switched
\* from the other mode).
\*   0x200  00FE|00FF  60 vx  61 vy  A240  D015     (the other plane)
\*   0x20A  00FF|00FE  60 vx  61 vy  A240  D015     (the plane under test)
\*   0x214  op  00FD
\*   0x240  the sprite
ScrollProgram(hi, vx, vy, op) ==
  LET drw == <<96, vx, 97, vy, 162, 64, 208, 21>>
  IN  <<0, IF hi THEN 254 ELSE 255>> \o drw
        \o <<0, IF hi THEN 255 ELSE 254>> \o drw
        \o <<op \div 256, op % 256, 0, 253>>
        \o [i \in 1 .. 40 |-> 0]
        \o SpriteLit

\* 00C0, 00C1, 00C5, 00CF, 00FB, 00FC
ScrollOps == {192, 193, 197, 207, 251, 252}

\* 0000, 00B1, 00D0, 00E1, 0123, 01C1, 0FCF: opcodes 0NNN that are none of
\* the listed ones
SysOps == {0, 177, 208, 225, 291, 449, 4047}

\* 00FE, 00FF
ModeOps == {254, 255}

\* where the sprite is drawn: across the right and bottom edges, and inside
ScrollAts == { <<126, 63>>, <<20, 10>> }

NextScroll ==
  \/ ~cpu.loaded /\ \E hi \in BOOLEAN, at \in ScrollAts,
                         op \in ScrollOps \cup SysOps \cup ModeOps :
                      LoadProgram(ScrollProgram(hi, at[1], at[2], op))
  \/ \E rnd \in RandBytes : Run(rnd)

SpecScroll == Init /\ [][NextScroll]_vars


\* F10A 00FD: a key wait before the halt
RomWaitHalt == <<241, 10, 0, 253>>

HaltPrograms == { RomHalt, RomWaitHalt, <<0, 253>> }

\* Programs that halt, under every call of the host: a program is loaded into
\* the CPU as constructed, after a reset, or over a halted CPU; state() is
\* called once; the key events are those that arrive while the CPU waits
NextHalt ==
  \/ (~cpu.loaded \/ cpu.halted) /\ \E p \in HaltPrograms : LoadProgram(p)
  \/ Reset
  \/ \E rnd \in RandBytes : Run(rnd)
  \/ TickTimers
  \/ cpu.wait_key /\ \E k \in KeyInputs : KeyDown(k)
  \/ saves = NoSave /\ Save
  \/ Restore

SpecHalt == Init /\ [][NextHalt]_vars


\* d nested subroutines: the CALL of depth k (0 <= k < d) is at 0x200 + 4k and
\* calls 0x200 + 4(k+1); it is followed by 00FD (k = 0) or 00EE; the
\* innermost subroutine is a lone 00EE
CallChain(d) ==
  [i \in 1 .. 4 * d + 2 |->
     CASE i % 4 = 1 /\ i < 4 * d -> 34
       [] i % 4 = 2 /\ i < 4 * d -> i + 2
       [] i % 4 = 0 -> IF i = 4 THEN 253 ELSE 238
       [] i = 4 * d + 2 -> 238
       [] OTHER -> 0]

\* 2208 2208 00FD 0000 / 220C 00EE / 00EE: the same subroutine called twice,
\* itself calling another
CallTwice == <<34, 8, 34, 8, 0, 253, 0, 0, 34, 12, 0, 238, 0, 238>>

CallDepths == 1 .. STACK_SIZE

NextCalls ==
  \/ ~cpu.loaded /\ \E p \in {CallChain(d) : d \in CallDepths} \cup {CallTwice} :
                      LoadProgram(p)
  \/ \E rnd \in RandBytes : Run(rnd)

SpecCalls == Init /\ [][NextCalls]_vars


\* 60aa 61bb 6Fcc Annn Fx55, then 6000 6100 6F00 if clobber, then Fx65 00FD
StoreProgram(x, nnn, v, clobber) ==
  <<96, v[1], 97, v[2], 111, v[3], 160 + nnn \div 256, nnn % 256, 240 + x, 85>>
    \o (IF clobber THEN <<96, 0, 97, 0, 111, 0>> ELSE << >>)
    \o <<240 + x, 101, 0, 253>>

StoreRegsX == {0, 1, 15}

\* I inside memory, and where the 16 bytes wrap at 0xFFF
StoreAts == {768, 4094}

StoreVals == { <<1, 2, 3>>, <<255, 0, 128>> }

\* the instruction at PC is FX55
AtStore(c) == Fetch(c) \div 4096 = 15 /\ Fetch(c) % 256 = 85

\* One store/load program run to its end; state() is called before the FX55
NextStore ==
  \/ ~cpu.loaded /\ \E x \in StoreRegsX, nnn \in StoreAts, v \in StoreVals,
                       clobber \in BOOLEAN :
                      LoadProgram(StoreProgram(x, nnn, v, clobber))
  \/ \E rnd \in RandBytes : Run(rnd)
  \/ AtStore(cpu) /\ Save

SpecStore == Init /\ [][NextStore]_vars


\* opcodes outside the dispatch table: 5XY1 5XYF 9XY1 9XYF, 8XYn for the
\* seven unlisted n, EX00 EX9F EXA0 EXFF, FX00 FX08 FX1F FX34 FX56 FXFF
UnknownOps ==
  { <<h, n, TRUE>> : h \in {80, 144}, n \in {1, 15} }
    \cup { <<128, n, TRUE>> : n \in {8, 9, 10, 11, 12, 13, 15} }
    \cup { <<224, nn, FALSE>> : nn \in {0, 159, 160, 255} }
    \cup { <<240, nn, FALSE>> : nn \in {0, 8, 31, 52, 86, 255} }

\* 6xaa 6ybb, one opcode outside the dispatch table, 00FD
NextUnknown ==
  \/ ~cpu.loaded /\ \E r \in RangeRegs, v \in RangeVals, o \in UnknownOps :
                      LoadProgram(Program(r[1], r[2], v[1], v[2], o))
  \/ \E rnd \in RandBytes : Run(rnd)

SpecUnknown == Init /\ [][NextUnknown]_vars

AddImmVals == {0, 1, 128, 255}

\* 6xaa 6Fbb 7xnn 00FD
NextAddImm ==
  \/ ~cpu.loaded /\ \E x \in AluRegs, a \in AluVals, b \in AddImmVals, nn \in AddImmVals :
                      LoadProgram(Program(x, 15, a, b, <<112, nn, FALSE>>))
  \/ \E rnd \in RandBytes : Run(rnd)

SpecAddImm == Init /\ [][NextAddImm]_vars


----------------------------------------------------------------------------
(* The frames of Emulator.run: the actions of _events, then _update        *)

\* the frames modelled
MaxFrames == 2

\* what pygame's clock.tick(60) returns: the milliseconds since the last frame
Dts == {16, 50}

\* the speeds of the Emulation menu that are used
Speeds == {6, 12}

\* 6002 F018 1204: the tone for two ticks, then a jump to itself
RomTone == <<96, 2, 240, 24, 18, 4>>

HostRoms == { RomTone, RomOversized }

\* RomTone has no CXNN: the random byte is never used
HostRand == {0}

HostCall(op, arg, ret, exc) ==
  /\ last' = Called(op, arg, ret, exc)
  /\ alias' = IF op \in {"load_rom", "close", "reset_rom"} /\ ret
                THEN Alias("none", {})
                ELSE IF op = "load_state" THEN Alias("restore", restore_uncopied)
                ELSE IF op = "save_state" /\ ret THEN Alias("state", state_uncopied)
                ELSE alias
  /\ UNCHANGED <<loads, rt>>

\* Emulator._load_rom: cpu.load(path), the file holding data
HostLoadRom(data) ==
  /\ host.running
  /\ cpu' = load_bytes(cpu, data)
  /\ host' = IF load_rejects(data) THEN host
             ELSE [host EXCEPT !.paused = FALSE, !.has_rom = TRUE, !.rom = data]
  /\ saves' = saves
  /\ HostCall("load_rom", 0, ~load_rejects(data), FALSE)

\* Emulator._close
HostClose ==
  /\ host.running
  /\ cpu' = reset(cpu)
  /\ host' = [host EXCEPT !.paused = TRUE, !.has_rom = FALSE, !.rom = << >>]
  /\ saves' = saves
  /\ HostCall("close", 0, TRUE, FALSE)

\* Emulator._run
HostRun ==
  /\ host.running
  /\ host' = IF cpu.loaded THEN [host EXCEPT !.paused = FALSE] ELSE host
  /\ UNCHANGED <<cpu, saves>>
  /\ HostCall("run", 0, cpu.loaded, FALSE)

\* Emulator._pause
HostPause ==
  /\ host.running
  /\ host' = [host EXCEPT !.paused = TRUE]
  /\ UNCHANGED <<cpu, saves>>
  /\ HostCall("pause", 0, TRUE, FALSE)

\* Emulator._reset: the ROM file is read again if there is one
HostReset ==
  /\ host.running
  /\ cpu' = IF host.has_rom THEN load_bytes(cpu, host.rom) ELSE reset(cpu)
  /\ host' = host
  /\ saves' = saves
  /\ HostCall("reset_rom", 0, TRUE, FALSE)

\* Emulator._step
HostStep(rnd) ==
  /\ host.running
  /\ LET r == step(cpu, rnd)
     IN  /\ cpu' = r.cpu
         /\ host' = [host EXCEPT !.paused = TRUE, !.stepped = TRUE,
                                 !.running = ~r.exc]
         /\ saves' = Shared(saves, r.cpu, alias)
         /\ HostCall("single_step", 0, TRUE, r.exc)

\* Emulator._save
HostSave ==
  /\ host.running
  /\ saves' = IF cpu.loaded THEN state(cpu) ELSE saves
  /\ host' = host
  /\ cpu' = cpu
  /\ HostCall("save_state", 0, cpu.loaded, FALSE)

\* Emulator._load
HostLoadState ==
  /\ host.running
  /\ saves # NoSave
  /\ cpu' = restore(cpu, saves)
  /\ host' = host
  /\ saves' = saves
  /\ HostCall("load_state", 0, TRUE, FALSE)

\* Emulator._set_speed
HostSetSpeed(s) ==
  /\ host.running
  /\ host' = [host EXCEPT !.speed = s]
  /\ UNCHANGED <<cpu, saves>>
  /\ HostCall("set_speed", s, TRUE, FALSE)

\* the _update(dt) that ends a frame
Update(dt, rnd) ==
  /\ host.running
  /\ host.frames < MaxFrames
  /\ \E u \in {_update(host, cpu, dt, rnd)} :
         /\ cpu' = u.cpu
         /\ host' = [u.host EXCEPT !.stepped = FALSE, !.frames = @ + 1]
         /\ saves' = Shared(saves, u.cpu, alias)
         /\ HostCall("update", dt, TRUE, u.exc)

InitHost ==
  /\ cpu = reset([mem |-> ZeroMem])
  /\ saves = NoSave
  /\ alias = Alias("none", {})
  /\ last = Called("init", 0, TRUE, FALSE)
  /\ loads = Loads(0, FALSE)
  /\ rt = RtOff
  /\ \E sound \in BOOLEAN : host = HostInit(sound)

\* one snapshot is made, while the tone sounds; a ROM is opened while none is
\* loaded; a single step (F10) is taken once in a frame
NextHost ==
  \/ ~cpu.loaded /\ \E data \in HostRoms : HostLoadRom(data)
  \/ HostClose
  \/ HostRun
  \/ HostPause
  \/ HostReset
  \/ ~host.stepped /\ \E rnd \in HostRand : HostStep(rnd)
  \/ saves = NoSave /\ cpu.ST > 0 /\ HostSave
  \/ HostLoadState
  \/ \E s \in Speeds : HostSetSpeed(s)
  \/ \E dt \in Dts, rnd \in HostRand : Update(dt, rnd)

SpecHost == InitHost /\ [][NextHost]_vars

----------------------------------------------------------------------------
(* Claims                                                                  *)

\* the opcode is FX0A
IsLdK(op) == op \div 4096 = 15 /\ op % 256 = 10

\* the fields the round-trip claims compare
Listed(r) ==
  [ V |-> r.V, I |-> r.I, PC |-> r.PC, SP |-> r.SP, stack |-> r.stack,
    DT |-> r.DT, ST |-> r.ST, mem |-> r.mem, hires |-> r.hires,
    gfx |-> r.gfx, gfx_hi |-> r.gfx_hi ]

\* the attributes of the CPU that are no part of a state() record
NotSnapshotted(c) ==
  [ keys |-> c.keys, wait_key |-> c.wait_key, wait_reg |-> c.wait_reg,
    halted |-> c.halted, rpl |-> c.rpl, loaded |-> c.loaded ]

\* C1: a step() made while halted or wait_key is set changes nothing of the
\* CPU: V, I, PC, SP, stack, DT, ST, memory, both planes, the mode flag,
\* keys and the cycle counter all keep their values.
C1_GatedStepIsNoOp ==
  [][(last'.op = "step" /\ (cpu.halted \/ cpu.wait_key)) => cpu' = cpu]_vars

\* a step() was made on a halted CPU that holds a program's results
C1_Witness ==
  /\ last.op = "step"
  /\ cpu.halted
  /\ cpu.V[0] = 5 /\ cpu.cycles = 3

\* C2: the key-wait protocol.  A step() that executes FX0A sets wait_key with
\* wait_reg = x and leaves PC; a step() made while waiting leaves PC and V and
\* the wait; a key_down(k), 0 <= k <= 15, made while waiting writes k into
\* V[wait_reg], clears wait_key and adds exactly 2 to PC, and leaves a CPU
\* whose next step() executes (it is neither waiting nor halted).
C2_KeyWaitProtocol ==
  [][ /\ ( /\ last'.op = "step" /\ ~last'.exc
           /\ ~(cpu.halted \/ cpu.wait_key)
           /\ IsLdK(Fetch(cpu)) )
         => /\ cpu'.wait_key
            /\ cpu'.wait_reg = (Fetch(cpu) \div 256) % 16
            /\ cpu'.PC = cpu.PC
      /\ (last'.op = "step" /\ cpu.wait_key)
         => cpu'.wait_key /\ cpu'.PC = cpu.PC /\ cpu'.V = cpu.V
      /\ (last'.op = "key_down" /\ last'.arg \in 0 .. 15 /\ cpu.wait_key)
         => /\ cpu'.V = [cpu.V EXCEPT ![cpu.wait_reg] = last'.arg]
            /\ ~cpu'.wait_key /\ ~cpu'.halted
            /\ cpu'.PC = cpu.PC + 2
    ]_vars

\* F00A waited, key_down(7) resolved it, and the next step() executed the
\* JP that follows the F00A
C2_Witness ==
  /\ last.op = "step"
  /\ cpu.cycles = 2
  /\ cpu.V[0] = 7 /\ cpu.keys[7] = 1
  /\ ~cpu.wait_key
  /\ cpu.PC = PROGRAM_START + 2
  /\ Fetch(cpu) = 4610

\* C3: the interpreter is total: no step() raises an error, whatever the ROM
\* and the calls made before.
C3_StepNeverRaises == ~(last.op = "step" /\ last.exc)

\* C5: restore(s) followed by state() gives a record equal to s, and state()
\* immediately followed by restore of that record changes none of the
\* snapshotted fields.
C5_SnapshotRestoreInverse ==
  [][ /\ last'.op = "restore" => state(cpu') = saves
      /\ (last.op = "state" /\ last'.op = "restore") => state(cpu') = state(cpu)
    ]_vars

\* a record taken in high-res mode with a drawn plane was restored over a
\* CPU that had moved on
C5_Witness ==
  /\ last.op = "restore"
  /\ saves.hires /\ saves.gfx_hi # {} /\ saves.cycles = 2
  /\ state(cpu) = saves

\* C6: restore(s) leaves what is no part of the record as it was: the sixteen
\* keys, wait_key, wait_reg, halted, the RPL slots (and loaded).
C6_RestoreKeepsLiveState ==
  [][last'.op = "restore" => NotSnapshotted(cpu') = NotSnapshotted(cpu)]_vars

\* a record taken before the program ran was restored into a halted CPU with
\* a key held and an RPL slot written
C6_Witness ==
  /\ last.op = "restore"
  /\ cpu.halted /\ cpu.keys[7] = 1 /\ cpu.rpl[0] = 5
  /\ cpu.PC = PROGRAM_START /\ cpu.V[0] = 0

\* C7: a state() record never changes once taken: no step, tick_timers, key
\* event, load or restore changes saves[0]; only a new state() replaces it.
C7_SnapshotImmutable ==
  [][(saves # NoSave /\ last'.op # "state") => saves' = saves]_vars

\* the record was restored and the CPU then stepped through a mode switch,
\* two draws and a scroll
C7_Witness ==
  /\ saves # NoSave
  /\ alias.how = "restore"
  /\ last.op = "step"
  /\ cpu.cycles = saves.cycles + 4
  /\ cpu.gfx_hi # saves.gfx_hi /\ cpu.gfx_hi # {}
  /\ cpu.V # saves.V

\* C8: load_bytes of a ROM longer than 3584 bytes returns False and leaves
\* the CPU as it was; a ROM of at most 3584 bytes is accepted (returns True).
C8_LoadSizeLimit ==
  [][last'.op = "load" =>
       IF Len(AllRoms[last'.arg]) > 3584
         THEN ~last'.ret /\ cpu' = cpu
         ELSE last'.ret /\ cpu'.loaded]_vars

\* the 3584-byte ROM was accepted and run, and then the 3585-byte ROM was
\* refused
C8_Witness ==
  /\ last.op = "load" /\ ~last.ret
  /\ Len(AllRoms[last.arg]) = 3585
  /\ MemRead(cpu.mem, 4095) = 1
  /\ cpu.cycles > 0 /\ cpu.keys[7] = 1

\* C9: after a successful load the CPU is a function of the ROM alone:
\* fonts at 0..79 and 80..179, the ROM from 0x200, zero elsewhere; V, I, DT,
\* ST, SP, the stack and the keys zero; both planes blank; PC = 0x200;
\* low-res; halted and wait_key cleared.
C9_LoadCanonical ==
  (last.op = "load" /\ last.ret) =>
    LET rom == AllRoms[last.arg]
    IN  /\ DOMAIN cpu.mem \subseteq 0 .. 4095
        /\ \A a \in 0 .. 4095 :
             MemRead(cpu.mem, a) =
               IF a < 80 THEN FONTSET[a + 1]
               ELSE IF a < 180 THEN SCHIP_FONT[a - 79]
               ELSE IF a >= 512 /\ a < 512 + Len(rom) THEN rom[a - 511]
               ELSE 0
        /\ \A i \in 0 .. 15 : cpu.V[i] = 0 /\ cpu.stack[i] = 0 /\ cpu.keys[i] = 0
        /\ cpu.I = 0 /\ cpu.DT = 0 /\ cpu.ST = 0 /\ cpu.SP = 0
        /\ cpu.gfx = {} /\ cpu.gfx_hi = {}
        /\ cpu.PC = 512
        /\ ~cpu.hires /\ ~cpu.halted /\ ~cpu.wait_key

\* a ROM was loaded over a CPU that had run another program
C9_Witness ==
  /\ last.op = "load" /\ last.ret
  /\ loads.n = 2 /\ loads.over

\* C10: after every step() SP is in 0..16.
C10_SPInRange == last.op = "step" => (0 <= cpu.SP /\ cpu.SP <= 16)

\* C4 as stated: with no key event in between, state(); k x step();
\* restore(); k x step() ends with V, I, PC, SP, stack, DT, ST, memory, the
\* mode flag and both planes as they were after the first k steps.
C4_RoundTripAsStated ==
  (rt.phase = 2 /\ rt.m = rt.k) => Listed(cpu) = Listed(rt.end)

\* C4, amended: the same, provided halted, wait_key and the RPL slots have at
\* the restore the values they had at the state() call and no CXNN executes
\* in the k steps.
C4_RoundTrip ==
  (rt.phase = 2 /\ rt.m = rt.k /\ rt.same /\ ~rt.rnd)
    => Listed(cpu) = Listed(rt.end)

\* two steps that switched the mode and drew, then the restore and the same
\* two steps again
C4_Witness ==
  /\ rt.phase = 2 /\ rt.m = rt.k /\ rt.k >= 2
  /\ rt.same /\ ~rt.rnd
  /\ rt.end.gfx_hi # saves.gfx_hi /\ rt.end.PC # saves.PC
  /\ Listed(cpu) = Listed(rt.end)


\* C11: after every step() PC is in 0..4095.
C11_PCInRange == last.op = "step" => (0 <= cpu.PC /\ cpu.PC <= 4095)

\* C13: CALL with SP = 16 and RET with SP = 0 are no-ops that do not fail:
\* the step raises nothing, leaves the stack and SP as they were and adds 2
\* to PC.
C13_StackEdgeIsNoOp ==
  [][ ( /\ last'.op = "step"
        /\ ~(cpu.halted \/ cpu.wait_key)
        /\ \/ Fetch(cpu) = 238 /\ cpu.SP = 0
           \/ Fetch(cpu) \div 4096 = 2 /\ cpu.SP = 16 )
      => /\ ~last'.exc
         /\ cpu'.stack = cpu.stack /\ cpu'.SP = cpu.SP
         /\ cpu'.PC = cpu.PC + 2 ]_vars


\* C12: in every state reached by load, step, tick_timers, key_down, key_up
\* and restore of snapshots taken before, every V[i] is in 0..255, DT and ST
\* are in 0..255 and I is in 0..65535.
C12_RegistersInRange ==
  /\ \A i \in 0 .. 15 : 0 <= cpu.V[i] /\ cpu.V[i] <= 255
  /\ 0 <= cpu.DT /\ cpu.DT <= 255
  /\ 0 <= cpu.ST /\ cpu.ST <= 255
  /\ 0 <= cpu.I /\ cpu.I <= 65535

\* the 241st F01E took I from 0xFFF + 240 * 0xFF past 0xFFFF
C12_Witness ==
  /\ last.op = "step"
  /\ cpu.cycles = 243
  /\ cpu.V[0] = 255
  /\ cpu.I = 4095 + 241 * 255 - 65536


\* C14: tick_timers() takes one from DT if DT > 0 and one from ST if ST > 0,
\* never goes below zero and changes nothing else, in every state of the CPU,
\* halted or waiting for a key included.
C14_TickTimers ==
  [][last'.op = "tick_timers" =>
       /\ cpu'.DT = (IF cpu.DT > 0 THEN cpu.DT - 1 ELSE 0)
       /\ cpu'.ST = (IF cpu.ST > 0 THEN cpu.ST - 1 ELSE 0)
       /\ cpu'.DT >= 0 /\ cpu'.ST >= 0
       /\ [cpu' EXCEPT !.DT = 0, !.ST = 0] = [cpu EXCEPT !.DT = 0, !.ST = 0]
    ]_vars

\* a tick of the halted CPU: DT (started at 1) stays at 0 and ST (started at
\* 3) has come down to 1
C14_Witness ==
  /\ last.op = "tick_timers"
  /\ cpu.halted
  /\ cpu.DT = 0 /\ cpu.ST = 1
  /\ cpu.V[0] = 3


\* this step() executes an instruction (it neither returns early nor raises)
Executes(c, d) == d.op = "step" /\ ~d.exc /\ ~(c.halted \/ c.wait_key)

\* C15: 8XY4 with a = V[x], b = V[y] before: afterwards VF is 1 if a + b > 255
\* and 0 otherwise, also when x = F (VF holds the flag, not the sum); for
\* x # F, V[x] = (a + b) mod 256; no other register changes.
C15_AddWithCarry ==
  [][ (Executes(cpu, last') /\ Fetch(cpu) \div 4096 = 8 /\ Fetch(cpu) % 16 = 4)
      => LET x == (Fetch(cpu) \div 256) % 16
             y == (Fetch(cpu) \div 16) % 16
             a == cpu.V[x]
             b == cpu.V[y]
         IN  /\ cpu'.V[15] = (IF a + b > 255 THEN 1 ELSE 0)
             /\ x # 15 => cpu'.V[x] = (a + b) % 256
             /\ \A i \in 0 .. 14 : i # x => cpu'.V[i] = cpu.V[i] ]_vars

\* 8F14 with VF = 255 and V1 = 15: the sum is 14, and VF holds 1
C15_Witness ==
  /\ last.op = "step" /\ cpu.cycles = 3
  /\ MemRead(cpu.mem, 516) = 143 /\ MemRead(cpu.mem, 517) = 20
  /\ MemRead(cpu.mem, 513) = 255
  /\ cpu.V[1] = 15
  /\ cpu.V[15] = 1

\* C16: after 8XY1, 8XY2, 8XY3 VF is 0, for all operands and all x, y (x = F
\* and y = F included); for x # F, V[x] is the bitwise OR / AND / XOR of the
\* old V[x] and V[y]; no other register changes.
C16_LogicOpsClearVF ==
  [][ (Executes(cpu, last') /\ Fetch(cpu) \div 4096 = 8 /\ Fetch(cpu) % 16 \in {1, 2, 3})
      => LET x == (Fetch(cpu) \div 256) % 16
             y == (Fetch(cpu) \div 16) % 16
             n == Fetch(cpu) % 16
             a == cpu.V[x]
             b == cpu.V[y]
         IN  /\ cpu'.V[15] = 0
             /\ x # 15 =>
                  /\ cpu'.V[x] \in 0 .. 255
                  /\ \A k \in 0 .. 7 :
                       (BitAt(cpu'.V[x], k) = 1) <=>
                         CASE n = 1 -> BitAt(a, k) = 1 \/ BitAt(b, k) = 1
                           [] n = 2 -> BitAt(a, k) = 1 /\ BitAt(b, k) = 1
                           [] n = 3 -> BitAt(a, k) # BitAt(b, k)
             /\ \A i \in 0 .. 14 : i # x => cpu'.V[i] = cpu.V[i] ]_vars

\* 81F1 with V1 = 240 and VF = 15: V1 = 255 and VF = 0
C16_Witness ==
  /\ last.op = "step" /\ cpu.cycles = 3
  /\ MemRead(cpu.mem, 516) = 129 /\ MemRead(cpu.mem, 517) = 241
  /\ MemRead(cpu.mem, 513) = 240 /\ MemRead(cpu.mem, 515) = 15
  /\ cpu.V[1] = 255
  /\ cpu.V[15] = 0


\* the plane DXYN and 00E0 work on, and the other one
ActivePlane(c) == IF c.hires THEN c.gfx_hi ELSE c.gfx
InactivePlane(c) == IF c.hires THEN c.gfx ELSE c.gfx_hi

\* the number of sprite bytes the DXYN with low nibble n reads in the mode of c
SpriteBytes(c, n) == IF n = 0 /\ c.hires THEN 32 ELSE n

\* cpu is about to execute the second of two successive draws of the same
\* sprite at the same coordinates in the same mode, and saves[0] is the
\* state() taken right before the first
SecondDraw ==
  /\ Executes(cpu, last')
  /\ last.op = "step"
  /\ saves # NoSave
  /\ cpu.cycles = saves.cycles + 1 /\ cpu.PC = saves.PC + 2
  /\ AtDraw(cpu)
  /\ MemRead(saves.mem, saves.PC) * 256 + MemRead(saves.mem, saves.PC + 1) = Fetch(cpu)
  /\ cpu.mem = saves.mem /\ cpu.I = saves.I /\ cpu.hires = saves.hires
  /\ cpu.V[(Fetch(cpu) \div 256) % 16] = saves.V[(Fetch(cpu) \div 256) % 16]
  /\ cpu.V[(Fetch(cpu) \div 16) % 16] = saves.V[(Fetch(cpu) \div 16) % 16]

\* the sprite the draw at cpu.PC reads has a 1 bit
SpriteHasBit ==
  \E r \in 0 .. SpriteBytes(cpu, Fetch(cpu) % 16) - 1 :
    MemRead(cpu.mem, (cpu.I + r) % 4096) # 0

\* C17 as stated: two successive draws of the same sprite at the same
\* coordinates in the same mode leave the active plane as it was before the
\* first, and after the second VF is 1 if and only if the sprite has a 1 bit.
C17_DoubleDrawAsStated ==
  [][ SecondDraw =>
        /\ ActivePlane(cpu') = ActivePlane(saves)
        /\ cpu'.V[15] = (IF SpriteHasBit THEN 1 ELSE 0) ]_vars

\* the pixels the first of the two draws toggled
FirstDrawn ==
  (ActivePlane(cpu) \ ActivePlane(saves)) \cup (ActivePlane(saves) \ ActivePlane(cpu))

\* C17, amended: the plane is as it was before the first draw, and after the
\* second draw VF is 1 if and only if the sprite has a 1 bit on a pixel that
\* was 0 before the first draw.
C17_DoubleDraw ==
  [][ SecondDraw =>
        /\ ActivePlane(cpu') = ActivePlane(saves)
        /\ InactivePlane(cpu') = InactivePlane(saves)
        /\ cpu'.V[15] = (IF FirstDrawn \ ActivePlane(saves) # {} THEN 1 ELSE 0) ]_vars

\* the second of two D015 in low-res at (62, 31), over a background: the
\* plane is back, not blank, and VF is 1
C17_Witness ==
  /\ last.op = "step" /\ cpu.cycles = 15 /\ cpu.PC = 542
  /\ saves # NoSave /\ saves.cycles = 13 /\ saves.PC = 538
  /\ MemRead(cpu.mem, 538) = 208 /\ MemRead(cpu.mem, 539) = 21
  /\ ~cpu.hires /\ cpu.V[0] = 126 /\ cpu.V[1] = 63
  /\ cpu.gfx = saves.gfx /\ cpu.gfx # {}
  /\ cpu.V[15] = 1


\* C18: DXYN with n >= 1 (the 8-pixel-wide form) in a plane of W x H: with
\* px0 = V[x] mod W and py0 = V[y] mod H, exactly the pixels
\* ((px0 + c) mod W, (py0 + r) mod H) with r < n, c < 8 and bit 7-c of
\* mem[(I + r) mod 4096] set are toggled in the active plane (they wrap at
\* the right and bottom edges); no other pixel changes; VF ends 1 if a
\* toggled pixel was 1 before and 0 otherwise.
C18_DrawSprite ==
  [][ (Executes(cpu, last') /\ AtDraw(cpu) /\ Fetch(cpu) % 16 >= 1)
      => LET x   == (Fetch(cpu) \div 256) % 16
             y   == (Fetch(cpu) \div 16) % 16
             n   == Fetch(cpu) % 16
             W   == IF cpu.hires THEN 128 ELSE 64
             H   == IF cpu.hires THEN 64 ELSE 32
             px0 == cpu.V[x] % W
             py0 == cpu.V[y] % H
             on(r, c) == (MemRead(cpu.mem, (cpu.I + r) % 4096) \div Pow2(7 - c)) % 2 = 1
             T   == { <<(px0 + rc[2]) % W, (py0 + rc[1]) % H>> :
                        rc \in { q \in (0 .. n - 1) \X (0 .. 7) : on(q[1], q[2]) } }
             old == ActivePlane(cpu)
         IN  /\ ActivePlane(cpu') = (old \ T) \cup (T \ old)
             /\ InactivePlane(cpu') = InactivePlane(cpu)
             /\ cpu'.V[15] = (IF T \cap old # {} THEN 1 ELSE 0)
             /\ \A i \in 0 .. 14 : cpu'.V[i] = cpu.V[i] ]_vars

\* D015 in low-res at (126 mod 64, 63 mod 32) = (62, 31) on a blank plane:
\* the sprite's first row 0xFF wraps to columns 0..5 and rows 1..4 wrap to
\* the top of the plane
C18_Witness ==
  /\ last.op = "step" /\ cpu.cycles = 10 /\ ~cpu.hires
  /\ MemRead(cpu.mem, 530) = 208 /\ MemRead(cpu.mem, 531) = 21
  /\ cpu.V[0] = 126 /\ cpu.V[1] = 63
  /\ {<<62, 31>>, <<63, 31>>, <<0, 31>>, <<5, 31>>, <<62, 0>>, <<5, 0>>} \subseteq cpu.gfx
  /\ <<6, 31>> \notin cpu.gfx
  /\ cpu.V[15] = 0

\* C19: 00E0 sets every pixel of the active plane to 0 and leaves every pixel
\* of the other plane as it was, in low-res and in high-res mode.
C19_ClsActivePlaneOnly ==
  [][ (Executes(cpu, last') /\ Fetch(cpu) = 224)
      => /\ ActivePlane(cpu') = {}
         /\ InactivePlane(cpu') = InactivePlane(cpu)
         /\ cpu'.hires = cpu.hires ]_vars

\* 00E0 in high-res after both planes were drawn on: the high-res plane is
\* blank and the low-res plane keeps its pixels
C19_Witness ==
  /\ last.op = "step" /\ cpu.cycles = 16 /\ cpu.PC = 544
  /\ MemRead(cpu.mem, 542) = 0 /\ MemRead(cpu.mem, 543) = 224
  /\ MemRead(cpu.mem, 531) = 18
  /\ cpu.hires
  /\ cpu.gfx_hi = {}
  /\ cpu.gfx # {}


\* C20: the RPL slots persist across reset: what FX75 stored is still in the
\* slots after reset() or an accepted load.
C20_RplSurvivesReset ==
  [][(last'.op \in {"reset", "load"} /\ last'.ret) => cpu'.rpl = cpu.rpl]_vars


\* the ROM 60 05 61 0A 80 14 12 08 is loaded
ScenarioLoaded ==
  /\ cpu.loaded
  /\ \A i \in 1 .. Len(RomScenario) :
       MemRead(cpu.mem, PROGRAM_START + i - 1) = RomScenario[i]

\* C21 as stated: for the ROM 60 05 61 0A 80 14 12 08, after 4 step() calls
\* V0 = 0x0F, V1 = 0x0A, VF = 0 and PC = 0x208, and PC stays at 0x208 on
\* every later step.
C21_ScenarioAsStated ==
  (ScenarioLoaded /\ cpu.cycles >= 4)
    => /\ cpu.V[0] = 15 /\ cpu.V[1] = 10 /\ cpu.V[15] = 0
       /\ cpu.PC = 520

\* C21, amended: after 4 step() calls V0 = 0x0F, V1 = 0x0A, VF = 0 and
\* PC = 0x208; the ROM ends at 0x207 and the memory from 0x208 on is zero, so
\* every later step executes the ignored opcode 0000: after k >= 4 executed
\* steps the registers are the same and PC = 0x208 + 2 (k - 4).
C21_Scenario ==
  (ScenarioLoaded /\ cpu.cycles >= 4)
    => /\ cpu.V[0] = 15 /\ cpu.V[1] = 10 /\ cpu.V[15] = 0
       /\ \A i \in 2 .. 14 : cpu.V[i] = 0
       /\ cpu.PC = 520 + 2 * (cpu.cycles - 4)

\* the fifth step has run: the registers hold the sum and PC is 0x20A
C21_Witness ==
  /\ ScenarioLoaded /\ last.op = "step" /\ cpu.cycles = 5
  /\ cpu.V[0] = 15 /\ cpu.V[1] = 10 /\ cpu.V[15] = 0
  /\ cpu.PC = 522


\* C22: 8XY5 and 8XY7 with a = V[x], b = V[y] before: 8XY5 leaves
\* V[x] = (a - b) mod 256 and VF = 1 iff a >= b; 8XY7 leaves
\* V[x] = (b - a) mod 256 and VF = 1 iff b >= a; the flag comes from the
\* operands before V[x] is overwritten and is written last, so for x = F the
\* final VF is the flag; no other register changes.
C22_SubNoBorrow ==
  [][ (Executes(cpu, last') /\ Fetch(cpu) \div 4096 = 8 /\ Fetch(cpu) % 16 \in {5, 7})
      => LET x == (Fetch(cpu) \div 256) % 16
             y == (Fetch(cpu) \div 16) % 16
             a == IF Fetch(cpu) % 16 = 5 THEN cpu.V[x] ELSE cpu.V[y]
             b == IF Fetch(cpu) % 16 = 5 THEN cpu.V[y] ELSE cpu.V[x]
         IN  /\ cpu'.V[15] = (IF a >= b THEN 1 ELSE 0)
             /\ x # 15 => cpu'.V[x] = (IF a >= b THEN a - b ELSE a - b + 256)
             /\ \A i \in 0 .. 14 : i # x => cpu'.V[i] = cpu.V[i] ]_vars

\* 8F15 with VF = 1 and V1 = 2: the difference is 255 and VF holds the flag 0
C22_Witness ==
  /\ last.op = "step" /\ cpu.cycles = 3
  /\ MemRead(cpu.mem, 516) = 143 /\ MemRead(cpu.mem, 517) = 21
  /\ MemRead(cpu.mem, 513) = 1
  /\ cpu.V[1] = 2
  /\ cpu.V[15] = 0

\* C23: 8XY6 and 8XYE shift V[x] itself and never read V[y]: 8XY6 leaves
\* V[x] = old V[x] div 2 and VF = old bit 0 of V[x]; 8XYE leaves
\* V[x] = (old V[x] * 2) mod 256 and VF = old bit 7 of V[x], whatever y and
\* V[y] are; for x = F the final VF is the shifted-out bit; no other register
\* changes.
C23_ShiftVx ==
  [][ (Executes(cpu, last') /\ Fetch(cpu) \div 4096 = 8 /\ Fetch(cpu) % 16 \in {6, 14})
      => LET x == (Fetch(cpu) \div 256) % 16
             a == cpu.V[x]
             right == Fetch(cpu) % 16 = 6
         IN  /\ cpu'.V[15] = (IF right THEN a % 2 ELSE a \div 128)
             /\ x # 15 => cpu'.V[x] = (IF right THEN a \div 2 ELSE (a * 2) % 256)
             /\ \A i \in 0 .. 14 : i # x => cpu'.V[i] = cpu.V[i] ]_vars

\* 801E with V0 = 128 and V1 = 1: V0 = 0 and VF = 1 (shifting V1 would give
\* V0 = 2 and VF = 0)
C23_Witness ==
  /\ last.op = "step" /\ cpu.cycles = 3
  /\ MemRead(cpu.mem, 516) = 128 /\ MemRead(cpu.mem, 517) = 30
  /\ MemRead(cpu.mem, 513) = 128 /\ MemRead(cpu.mem, 515) = 1
  /\ cpu.V[0] = 0 /\ cpu.V[1] = 1
  /\ cpu.V[15] = 1


\* C24: every opcode with high nibble 0 other than 00E0, 00EE, 00CN, 00FB,
\* 00FC, 00FD, 00FE and 00FF is ignored: it changes only PC (+2) and the
\* cycle counter; only opcodes of the exact form 00CN scroll the plane.
C24_SysIgnored ==
  [][ ( /\ Executes(cpu, last')
        /\ Fetch(cpu) < 4096
        /\ Fetch(cpu) \notin {224, 238, 251, 252, 253, 254, 255}
        /\ Fetch(cpu) \div 16 # 12 )
      => cpu' = [cpu EXCEPT !.PC = @ + 2, !.cycles = @ + 1] ]_vars

\* C28: the scroll opcodes shift only the active plane and zero the vacated
\* cells: after 00CN pixel (c, r) is the old pixel (c, r-N) for r >= N and 0
\* for r < N; after 00FB pixel (c, r) is the old (c-4, r) for c >= 4 and 0
\* for c < 4; after 00FC pixel (c, r) is the old (c+4, r) for c < W-4 and 0
\* for c >= W-4; the horizontal step is 4 in both modes, and the inactive
\* plane is unchanged.
C28_Scrolls ==
  [][ (Executes(cpu, last') /\ (Fetch(cpu) \div 16 = 12 \/ Fetch(cpu) \in {251, 252}))
      => LET op  == Fetch(cpu)
             N   == op % 16
             W   == IF cpu.hires THEN 128 ELSE 64
             H   == IF cpu.hires THEN 64 ELSE 32
             old == ActivePlane(cpu)
             new == ActivePlane(cpu')
             from(c, r) ==
               CASE op = 251 -> c >= 4 /\ <<c - 4, r>> \in old
                 [] op = 252 -> c < W - 4 /\ <<c + 4, r>> \in old
                 [] OTHER -> r >= N /\ <<c, r - N>> \in old
         IN  /\ new \subseteq (0 .. W - 1) \X (0 .. H - 1)
             /\ \A c \in 0 .. W - 1, r \in 0 .. H - 1 : (<<c, r>> \in new) <=> from(c, r)
             /\ InactivePlane(cpu') = InactivePlane(cpu)
             /\ cpu'.hires = cpu.hires ]_vars

\* 00FC in low-res after D015 at (62, 31), whose first row lit columns 62, 63
\* and 0..5 of row 31: columns 62, 63 moved to 58, 59, columns 4, 5 moved to
\* 0, 1, columns 0..3 left the plane and columns 60..63 are blank; the
\* high-res plane keeps its pixels
C28_Witness ==
  /\ last.op = "step" /\ cpu.cycles = 11 /\ ~cpu.hires
  /\ MemRead(cpu.mem, 532) = 0 /\ MemRead(cpu.mem, 533) = 252
  /\ cpu.V[0] = 126 /\ cpu.V[1] = 63
  /\ { c \in 0 .. 63 : <<c, 31>> \in cpu.gfx } = {0, 1, 58, 59}
  /\ cpu.gfx_hi # {}


\* C25: every memory write addressed through I wraps modulo 4096: FX33
\* writes its three digits at (I) mod 4096, (I+1) mod 4096, (I+2) mod 4096
\* and FX55 writes V[i] at (I+i) mod 4096, for every value of I.
C25_StoresWrap ==
  [][ ( /\ last'.op = "step" /\ ~(cpu.halted \/ cpu.wait_key)
        /\ Fetch(cpu) \div 4096 = 15 /\ Fetch(cpu) % 256 \in {51, 85} )
      => LET x == (Fetch(cpu) \div 256) % 16
             v == cpu.V[x]
         IN  IF Fetch(cpu) % 256 = 51
               THEN /\ MemRead(cpu'.mem, cpu.I % 4096) = v \div 100
                    /\ MemRead(cpu'.mem, (cpu.I + 1) % 4096) = (v \div 10) % 10
                    /\ MemRead(cpu'.mem, (cpu.I + 2) % 4096) = v % 10
               ELSE \A i \in 0 .. x :
                      MemRead(cpu'.mem, (cpu.I + i) % 4096) = cpu.V[i] ]_vars


\* C26: 00FD sets the halted flag and leaves PC unchanged; once halted, the
\* CPU stays halted and its registers, memory, planes and cycle counter stay
\* unchanged under any number of step() calls; the halted flag is cleared
\* only by reset() or a successful load, and both clear it.
C26_Halt ==
  [][ /\ (Executes(cpu, last') /\ Fetch(cpu) = 253)
           => cpu' = [cpu EXCEPT !.halted = TRUE, !.cycles = @ + 1]
      /\ (cpu.halted /\ last'.op = "step") => (cpu' = cpu /\ ~last'.exc)
      /\ (cpu.halted /\ ~cpu'.halted) => (last'.op \in {"reset", "load"} /\ last'.ret)
      /\ (last'.op \in {"reset", "load"} /\ last'.ret) => ~cpu'.halted ]_vars

\* a halted CPU was restored to a snapshot taken before the 00FD and then
\* stepped: it is still halted, with PC at the restored instruction
C26_Witness ==
  /\ cpu.halted /\ last.op = "step"
  /\ saves # NoSave /\ cpu.PC = saves.PC /\ cpu.cycles = saves.cycles
  /\ Fetch(cpu) # 253
  /\ cpu.cycles > 0


\* the program in memory is one of the CallChain(d)
ChainLoaded(c) ==
  /\ c.loaded
  /\ MemRead(c.mem, 512) = 34 /\ MemRead(c.mem, 513) = 4

\* C27: CALL and RET are LIFO for nesting depth up to 16: 2NNN stores the
\* address of the CALL at stack[SP], increments SP and jumps to nnn; 00EE
\* decrements SP and sets PC to stack[SP] + 2; no other instruction writes the
\* stack and a CALL writes its own slot only, so the slot a 00EE reads holds
\* the address of the matching CALL.  In a chain of nested subroutines whose
\* CALL of depth k is at 0x200 + 4k, SP is the depth of the instruction at PC
\* before and after every CALL and every return.
C27_CallRetLifo ==
  [][ /\ (Executes(cpu, last') /\ Fetch(cpu) \div 4096 = 2 /\ cpu.SP \in 0 .. 15)
           => /\ cpu'.stack = [cpu.stack EXCEPT ![cpu.SP] = cpu.PC]
              /\ cpu'.SP = cpu.SP + 1
              /\ cpu'.PC = Fetch(cpu) % 4096
      /\ (Executes(cpu, last') /\ Fetch(cpu) = 238 /\ cpu.SP \in 1 .. 16)
           => /\ cpu'.SP = cpu.SP - 1
              /\ cpu'.PC = cpu.stack[cpu.SP - 1] + 2
              /\ cpu'.stack = cpu.stack
      /\ (last'.op = "step" /\ Fetch(cpu) \div 4096 # 2) => cpu'.stack = cpu.stack
      /\ (last'.op = "step" /\ ChainLoaded(cpu'))
           => /\ cpu'.SP = (cpu'.PC - 512) \div 4
              /\ \A k \in 0 .. cpu'.SP - 1 : cpu'.stack[k] = 512 + 4 * k ]_vars

\* the chain of depth 16 has returned from all its calls: SP is 0 again, PC
\* is right after the first CALL, and the last slot still holds the address
\* of the sixteenth CALL
C27_Witness ==
  /\ ChainLoaded(cpu) /\ cpu.halted
  /\ cpu.SP = 0 /\ cpu.PC = 514
  /\ cpu.stack[15] = 572
  /\ cpu.cycles = 33


\* C29: DXY0 depends on the mode.  In high-res mode it draws a 16x16 sprite
\* from 32 bytes at I: row r is the big-endian word at (I+2r) mod 4096,
\* (I+2r+1) mod 4096, and bit 15-c toggles pixel ((px0+c) mod 128,
\* (py0+r) mod 64), with px0 = V[x] mod 128 and py0 = V[y] mod 64; VF is 1 if
\* a toggled pixel was set and 0 otherwise.  In low-res mode it toggles no
\* pixel of either plane and sets VF to 0.
C29_DrawZeroRows ==
  [][ (Executes(cpu, last') /\ AtDraw(cpu) /\ Fetch(cpu) % 16 = 0)
      => LET x   == (Fetch(cpu) \div 256) % 16
             y   == (Fetch(cpu) \div 16) % 16
             px0 == cpu.V[x] % 128
             py0 == cpu.V[y] % 64
             word(r) == 256 * MemRead(cpu.mem, (cpu.I + 2 * r) % 4096)
                          + MemRead(cpu.mem, (cpu.I + 2 * r + 1) % 4096)
             T   == { <<(px0 + rc[2]) % 128, (py0 + rc[1]) % 64>> :
                        rc \in { q \in (0 .. 15) \X (0 .. 15) :
                                   (word(q[1]) \div Pow2(15 - q[2])) % 2 = 1 } }
         IN  /\ cpu.hires =>
                  /\ cpu'.gfx_hi = (cpu.gfx_hi \ T) \cup (T \ cpu.gfx_hi)
                  /\ cpu'.gfx = cpu.gfx
                  /\ cpu'.V[15] = (IF T \cap cpu.gfx_hi # {} THEN 1 ELSE 0)
             /\ ~cpu.hires =>
                  /\ cpu'.gfx = cpu.gfx /\ cpu'.gfx_hi = cpu.gfx_hi
                  /\ cpu'.V[15] = 0
             /\ \A i \in 0 .. 14 : cpu'.V[i] = cpu.V[i] ]_vars

\* D010 in high-res at (126, 63) on a blank plane: row 0 is the word 0xFF81,
\* whose bits light columns 126, 127, 0..6 and 13 of row 63; row 1 is 0x3C01,
\* which lights columns 0..3 and 13 of row 0
C29_Witness ==
  /\ last.op = "step" /\ cpu.cycles = 10 /\ cpu.hires
  /\ MemRead(cpu.mem, 530) = 208 /\ MemRead(cpu.mem, 531) = 16
  /\ cpu.V[0] = 126 /\ cpu.V[1] = 63
  /\ { c \in 0 .. 127 : <<c, 63>> \in cpu.gfx_hi } = {126, 127, 0, 1, 2, 3, 4, 5, 6, 13}
  /\ { c \in 0 .. 127 : <<c, 0>> \in cpu.gfx_hi } = {0, 1, 2, 3, 13}
  /\ cpu.V[15] = 0

\* C30: 00FE and 00FF change only the mode flag and PC (+2), besides the
\* cycle counter: both planes keep their contents, so switching to the other
\* mode and back shows the original plane unchanged.
C30_ModeSwitchKeepsPlanes ==
  [][ (Executes(cpu, last') /\ Fetch(cpu) \in {254, 255})
      => cpu' = [cpu EXCEPT !.hires = (Fetch(cpu) = 255),
                            !.PC = @ + 2, !.cycles = @ + 1] ]_vars

\* low-res, then high-res, then 00FE: the low-res plane shows the sprite
\* drawn before the two switches (row 31: columns 62, 63, 0..5), and the
\* high-res plane still holds its own
C30_Witness ==
  /\ last.op = "step" /\ cpu.cycles = 11 /\ ~cpu.hires
  /\ MemRead(cpu.mem, 532) = 0 /\ MemRead(cpu.mem, 533) = 254
  /\ MemRead(cpu.mem, 522) = 0 /\ MemRead(cpu.mem, 523) = 255
  /\ cpu.V[0] = 126 /\ cpu.V[1] = 63
  /\ { c \in 0 .. 63 : <<c, 31>> \in cpu.gfx } = {62, 63, 0, 1, 2, 3, 4, 5}
  /\ <<126, 63>> \in cpu.gfx_hi


\* C31: FX55 and FX65 leave I unchanged: FX55 copies V0..Vx to memory at
\* (I+i) mod 4096 and changes no register and no other memory byte; FX65
\* copies those x+1 memory bytes into V0..Vx and changes no memory and no
\* register above Vx; an FX55 followed by an FX65 with the same x and I
\* (saves[0] is the state() taken right before the FX55) leaves V0..Vx as
\* they were.
C31_StoreLoadKeepI ==
  [][ (Executes(cpu, last') /\ Fetch(cpu) \div 4096 = 15 /\ Fetch(cpu) % 256 \in {85, 101})
      => LET x    == (Fetch(cpu) \div 256) % 16
             at   == { (cpu.I + i) % 4096 : i \in 0 .. x }
             used == DOMAIN cpu.mem \cup DOMAIN cpu'.mem
         IN  /\ cpu'.I = cpu.I
             /\ cpu' = [cpu EXCEPT !.mem = cpu'.mem, !.V = cpu'.V,
                                   !.PC = @ + 2, !.cycles = @ + 1]
             /\ Fetch(cpu) % 256 = 85 =>
                  /\ cpu'.V = cpu.V
                  /\ \A i \in 0 .. x : MemRead(cpu'.mem, (cpu.I + i) % 4096) = cpu.V[i]
                  /\ \A a \in used \ at : MemRead(cpu'.mem, a) = MemRead(cpu.mem, a)
             /\ Fetch(cpu) % 256 = 101 =>
                  /\ cpu'.mem = cpu.mem
                  /\ \A i \in 0 .. x : cpu'.V[i] = MemRead(cpu.mem, (cpu.I + i) % 4096)
                  /\ \A i \in x + 1 .. 15 : cpu'.V[i] = cpu.V[i]
                  /\ ( /\ saves # NoSave /\ cpu.cycles > saves.cycles
                       /\ MemRead(saves.mem, saves.PC) = 240 + x
                       /\ MemRead(saves.mem, saves.PC + 1) = 85
                       /\ cpu.I = saves.I )
                     => \A i \in 0 .. x : cpu'.V[i] = saves.V[i] ]_vars

\* FF55 at I = 0xFFE, registers cleared, FF65: V0, V1, VF are 255, 0, 128
\* again, read back from 0xFFE, 0xFFF and 0x00D, and I is still 0xFFE
C31_Witness ==
  /\ last.op = "step" /\ cpu.cycles = 9
  /\ MemRead(cpu.mem, 520) = 255 /\ MemRead(cpu.mem, 521) = 85
  /\ MemRead(cpu.mem, 528) = 255 /\ MemRead(cpu.mem, 529) = 101
  /\ saves # NoSave /\ saves.cycles = 4
  /\ cpu.I = 4094
  /\ cpu.V[0] = 255 /\ cpu.V[1] = 0 /\ cpu.V[15] = 128
  /\ MemRead(cpu.mem, 4094) = 255 /\ MemRead(cpu.mem, 13) = 128


\* 5XYn and 9XYn with n # 0, 8XYn with n in {8,9,A,B,C,D,F}, EXnn other than
\* 9E and A1, FXnn with an unlisted nn
Unlisted(op) ==
  LET hi == op \div 4096
      nn == op % 256
      n  == op % 16
  IN  \/ hi \in {5, 9} /\ n # 0
      \/ hi = 8 /\ n \in {8, 9, 10, 11, 12, 13, 15}
      \/ hi = 14 /\ nn \notin {158, 161}
      \/ hi = 15 /\ nn \notin {7, 10, 21, 24, 30, 41, 48, 51, 85, 101, 117, 133}

\* C32: opcodes outside the dispatch table raise no error and change nothing
\* except PC, which advances by 2, and the cycle counter.
C32_UnknownOpcodes ==
  [][ (last'.op = "step" /\ ~(cpu.halted \/ cpu.wait_key) /\ Unlisted(Fetch(cpu)))
      => /\ ~last'.exc
         /\ cpu' = [cpu EXCEPT !.PC = @ + 2, !.cycles = @ + 1] ]_vars

\* 8FFF with VF = 128: VF is still 128 and PC is past the opcode
C32_Witness ==
  /\ last.op = "step" /\ ~last.exc /\ cpu.cycles = 3 /\ cpu.PC = 518
  /\ MemRead(cpu.mem, 516) = 143 /\ MemRead(cpu.mem, 517) = 255
  /\ cpu.V[15] = 128

\* C33: 7XNN sets V[x] to (V[x] + nn) mod 256 and writes no carry flag: for
\* x # F, VF is unchanged even when the addition overflows, and no other
\* register changes.
C33_AddImmediate ==
  [][ (Executes(cpu, last') /\ Fetch(cpu) \div 4096 = 7)
      => LET x  == (Fetch(cpu) \div 256) % 16
             nn == Fetch(cpu) % 256
         IN  /\ cpu'.V[x] = (cpu.V[x] + nn) % 256
             /\ \A i \in 0 .. 15 : i # x => cpu'.V[i] = cpu.V[i] ]_vars

\* 70FF with V0 = 255 and VF = 0: V0 = 254 and VF is still 0
C33_Witness ==
  /\ last.op = "step" /\ cpu.cycles = 3
  /\ MemRead(cpu.mem, 516) = 112 /\ MemRead(cpu.mem, 517) = 255
  /\ MemRead(cpu.mem, 513) = 255
  /\ cpu.V[0] = 254
  /\ cpu.V[15] = 0


\* C35: whenever the key-wait flag is set, the opcode at PC is FX0A with x
\* equal to wait_reg, in every state reachable by load, step, tick_timers,
\* key_down, key_up, state() and restore().
C35_WaitsAtLdK ==
  cpu.wait_key => Fetch(cpu) = 61450 + 256 * cpu.wait_reg


\* C37: a key wait is resolved only by a key_down that arrives after FX0A
\* executed: FX0A sets the wait whatever keys are held and changes neither PC
\* nor a register; key_up only clears keys[k]; key_down with k outside 0..15
\* changes nothing; key_down outside a wait only sets keys[k]; while the CPU
\* waits, PC moves only by the +2 of the key_down that ends the wait (or by a
\* load, reset or restore, none of which resolves it), so each executed FX0A
\* leads to exactly one advance.
C37_KeyWaitResolution ==
  [][ /\ (Executes(cpu, last') /\ IsLdK(Fetch(cpu)))
           => cpu' = [cpu EXCEPT !.wait_key = TRUE,
                                 !.wait_reg = (Fetch(cpu) \div 256) % 16,
                                 !.cycles = @ + 1]
      /\ (last'.op = "key_up")
           => cpu' = IF last'.arg \in 0 .. 15
                       THEN [cpu EXCEPT !.keys = [@ EXCEPT ![last'.arg] = 0]]
                       ELSE cpu
      /\ (last'.op = "key_down" /\ last'.arg \notin 0 .. 15) => cpu' = cpu
      /\ (last'.op = "key_down" /\ last'.arg \in 0 .. 15 /\ ~cpu.wait_key)
           => cpu' = [cpu EXCEPT !.keys = [@ EXCEPT ![last'.arg] = 1]]
      /\ (cpu.wait_key /\ (~cpu'.wait_key \/ cpu'.PC # cpu.PC \/ cpu'.V # cpu.V))
           => \/ last'.op \in {"load", "reset"}
              \/ last'.op = "restore" /\ cpu'.wait_key
              \/ /\ last'.op = "key_down" /\ last'.arg \in 0 .. 15
                 /\ ~cpu'.wait_key
                 /\ cpu'.PC = cpu.PC + 2
                 /\ cpu'.V = [cpu.V EXCEPT ![cpu.wait_reg] = last'.arg] ]_vars

\* F10A executed while key 7 was already held: the CPU waits, V1 is untouched
\* and PC is still at the F10A
C37_Witness ==
  /\ last.op = "step" /\ cpu.wait_key /\ cpu.wait_reg = 1
  /\ cpu.keys[7] = 1
  /\ Fetch(cpu) = 61706
  /\ cpu.V[1] = 0
  /\ cpu.cycles = 5


----------------------------------------------------------------------------
(* C34, C36: the frame loop of the host                                    *)

\* n / TIMER_HZ seconds in the accumulator's units, rounded up: an
\* accumulator value holds n whole sixtieths of a second iff it is at least this
Sixtieths(n) ==
  LET q == (1000 * n) \div TIMER_HZ
      f == (1000 * n) % TIMER_HZ
      g == (f * AccUnit) % TIMER_HZ
  IN  AccNorm(q * AccUnit + (f * AccUnit) \div TIMER_HZ,
              (g * AccUnit + TIMER_HZ - 1) \div TIMER_HZ)

\* the whole 1/60 s contained in the accumulator plus dt milliseconds
WholeSixtieths(acc, dt) ==
  Cardinality({ n \in 1..4 : AccGeq(<<acc[1] + dt * AccUnit, acc[2]>>, Sixtieths(n)) })

\* C34: a frame's _update, with a ROM loaded and not paused, calls step()
\* speed times and tick_timers() once per whole 1/60 s contained in the
\* accumulated elapsed time, and leaves less than 1/60 s in the accumulator;
\* paused or without a ROM it calls neither and leaves the accumulator as it
\* was.
C34_FrameLoop ==
  [][ last'.op = "update" /\ ~last'.exc =>
        IF ~host.paused /\ cpu.loaded
          THEN /\ host'.steps = host.speed
               /\ host'.ticks = WholeSixtieths(host.timer_acc, last'.arg)
               /\ ~AccGeq(host'.timer_acc, Sixtieths(1))
          ELSE /\ host'.steps = 0 /\ host'.ticks = 0
               /\ cpu' = cpu
               /\ host'.timer_acc = host.timer_acc ]_vars

\* C36: when a frame's _update has returned, the tone is playing exactly if
\* ST > 0.
C36_ToneFollowsST ==
  last.op = "update" => (host.playing <=> cpu.ST > 0)

=============================================================================
